---- MODULE Spec2Model ----
(***************************************************************************)
(* Verification model of the ofxGe plugin-and-codegen pipeline:            *)
(*   - PluginManager          (src/pluginSystem/PluginManager.{h,cpp})     *)
(*   - BuiltinVariables       (src/shaderSystem/BuiltinVariables.cpp)      *)
(*   - ShaderNode             (src/shaderSystem/ShaderNode.cpp)            *)
(*   - ShaderManager          (src/shaderSystem/ShaderManager.cpp)         *)
(*   - ShaderCompositionEngine(src/shaderSystem/ShaderCompositionEngine.cpp)*)
(*                                                                         *)
(* Strings whose characters the code inspects (function names, argument    *)
(* texts, node ids, cache keys) are sequences of one-character strings.    *)
(* Strings the code only compares as a whole (plugin aliases, library      *)
(* paths, file paths) are TLA+ strings.                                    *)
(***************************************************************************)
EXTENDS Integers, Sequences, FiniteSets, TLC

VARIABLES
    \* ---- PluginManager and the dynamic loader underneath it ----
    loaded_plugins,   \* alias -> LoadedPlugin record (PluginManager::loaded_plugins)
    lib_refs,         \* library path -> number of open dlopen handles
    instances,        \* plugin instance id -> library path that created it (live instances)
    plugin_call,      \* record of the last PluginManager call and its teardown events
    \* ---- ShaderNode objects (shared_ptr heap) and ShaderManager ----
    shaders,          \* object id -> ShaderNode record
    shader_cache,     \* cache key -> object id (ShaderManager::shader_cache)
    shader_call,      \* record of the last ShaderManager call
    \* ---- ShaderCompositionEngine ----
    pending_nodes,    \* node id -> CompositionNode record
    next_node_id,     \* ShaderCompositionEngine::next_node_id
    compiled_cache,   \* graph key -> object id
    graph_call,       \* record of the last ShaderCompositionEngine call
    issued_ids,       \* history: every id a successful registerNode has returned
    \* ---- ShaderCodeGenerator ----
    codegen_call,     \* record of the last ShaderCodeGenerator call and its result
    \* ---- FunctionDependencyAnalyzer ----
    analyzer_call,    \* record of the last FunctionDependencyAnalyzer call and its result
    \* ---- ExpressionParser ----
    parser_call,      \* record of the last ExpressionParser call and its result
    \* ---- graphicsEngine / OscHandler ----
    osc_handler,            \* TRUE while graphicsEngine::osc_handler is set
    receiver,               \* messages waiting in OscHandler::receiver, oldest first
    create_message_queue,   \* OscHandler::create_message_queue
    connect_message_queue,  \* OscHandler::connect_message_queue
    free_message_queue,     \* OscHandler::free_message_queue
    active_shaders,         \* graphicsEngine::active_shaders: shader id -> object
    sm_active_shaders,      \* ShaderManager::active_shaders: shader id -> object
    next_shader_id,         \* ShaderManager::next_shader_id
    current_shader,         \* graphicsEngine::current_shader, NullObj when unset
    osc_call,               \* record of the last OSC operation and the responses it sent
    returned_shader_ids,    \* history: the ids success responses to /create carried
    freed_shader_ids,       \* history: the ids of the /free requests answered with success
    \* ---- one ShaderNode a host works on directly ----
    host_node             \* the ShaderNode record

vars == <<loaded_plugins, lib_refs, instances, plugin_call,
          shaders, shader_cache, shader_call,
          pending_nodes, next_node_id, compiled_cache, graph_call, issued_ids,
          codegen_call, analyzer_call, parser_call,
          osc_handler, receiver, create_message_queue, connect_message_queue,
          free_message_queue, active_shaders, sm_active_shaders, next_shader_id,
          current_shader, osc_call, returned_shader_ids, freed_shader_ids,
          host_node>>

oscVars == <<osc_handler, receiver, create_message_queue, connect_message_queue,
             free_message_queue, active_shaders, sm_active_shaders, next_shader_id,
             current_shader, osc_call, returned_shader_ids, freed_shader_ids>>

pluginVars == <<loaded_plugins, lib_refs, instances, plugin_call>>
shaderVars == <<shaders, shader_cache, shader_call>>
graphVars  == <<pending_nodes, next_node_id, compiled_cache, graph_call, issued_ids>>

----------------------------------------------------------------------------
(* Character-level string helpers                                          *)

Digits == {"0","1","2","3","4","5","6","7","8","9"}

Letters == {"a","b","c","d","e","f","g","h","i","j","k","l","m",
            "n","o","p","q","r","s","t","u","v","w","x","y","z",
            "A","B","C","D","E","F","G","H","I","J","K","L","M",
            "N","O","P","Q","R","S","T","U","V","W","X","Y","Z"}

\* the regex class \w
WordChars == Letters \cup Digits \cup {"_"}

EmptyStr == << >>

\* the empty map (a function with empty domain)
EmptyMap == [x \in {} |-> 0]

\* s.find(c): first index of character c in s, 0 when absent (npos)
FindChar(s, c) ==
    IF \E i \in 1..Len(s) : s[i] = c
    THEN CHOOSE i \in 1..Len(s) : s[i] = c /\ \A j \in 1..(i-1) : s[j] # c
    ELSE 0

\* does pattern p occur in s starting at index i
StartsWithAt(s, i, p) ==
    /\ i >= 1
    /\ i + Len(p) - 1 <= Len(s)
    /\ \A k \in 1..Len(p) : s[i + k - 1] = p[k]

\* last index of the maximal run of \w characters that starts at i (i-1 if none)
WordRunEnd(s, i) ==
    IF i > Len(s) \/ s[i] \notin WordChars THEN i - 1
    ELSE CHOOSE j \in i..Len(s) :
            /\ \A k \in i..j : s[k] \in WordChars
            /\ (j = Len(s) \/ s[j+1] \notin WordChars)

RECURSIVE to_string(_)
\* std::to_string for a non-negative integer
to_string(n) ==
    LET d == <<"0","1","2","3","4","5","6","7","8","9">>[(n % 10) + 1]
    IN IF n < 10 THEN <<d>> ELSE to_string(n \div 10) \o <<d>>

RECURSIVE JoinWith(_, _)
\* concatenation of "<sep><arg>" for every element, in order
JoinWith(sep, args) ==
    IF args = << >> THEN << >>
    ELSE sep \o Head(args) \o JoinWith(sep, Tail(args))

----------------------------------------------------------------------------
(* Names used as data                                                      *)

N_snoise == <<"s","n","o","i","s","e">>
N_random == <<"r","a","n","d","o","m">>
N_sin    == <<"s","i","n">>
N_nope   == <<"n","o","p","e">>

A_st     == <<"s","t">>
A_time   == <<"t","i","m","e">>
A_resolution == <<"r","e","s","o","l","u","t","i","o","n">>
A_gl_FragCoord == <<"g","l","_","F","r","a","g","C","o","o","r","d">>

----------------------------------------------------------------------------
(* The dynamic libraries the host can be asked to load.  Each record says  *)
(* what dlopen/dlsym/createPlugin answer for that file.                    *)

\* the ABI version the host was built against (loadPlugin only compares
\* against it, lines 24-25, so any one value stands for it)
PLUGIN_ABI_VERSION == 1

N_cnoise == <<"c","n","o","i","s","e">>

LibraryPaths == {"plugins/lygia/libLygia.so", "plugins/old/libOld.so",
                 "plugins/bad/libBadAbi.so", "plugins/nosym/libNoSym.so",
                 "plugins/null/libNull.so", "plugins/nd/libNoDestroy.so",
                 "plugins/none/libMissing.so"}

\* exists: dlopen succeeds; has_abi: dlsym finds getPluginABIVersion; abi: the
\* interface version the library was built against (what the query returns
\* when it is exported); has_create/has_info/has_destroy: dlsym finds
\* createPlugin/getPluginInfo/destroyPlugin; creates: createPlugin() returns a
\* non-null instance; name: IPluginInterface::getName(); functions:
\* getAllFunctionNames()
Library(path) ==
    CASE path = "plugins/lygia/libLygia.so" ->
            [exists |-> TRUE, has_abi |-> TRUE, abi |-> PLUGIN_ABI_VERSION,
             has_create |-> TRUE, has_info |-> TRUE, has_destroy |-> TRUE,
             creates |-> TRUE, name |-> "lygia",
             functions |-> {N_snoise, N_random, N_sin, N_cnoise}]
      [] path = "plugins/old/libOld.so" ->
            [exists |-> TRUE, has_abi |-> FALSE, abi |-> PLUGIN_ABI_VERSION + 1,
             has_create |-> TRUE, has_info |-> TRUE, has_destroy |-> TRUE,
             creates |-> TRUE, name |-> "old",
             functions |-> {N_snoise}]
      [] path = "plugins/bad/libBadAbi.so" ->
            [exists |-> TRUE, has_abi |-> TRUE, abi |-> PLUGIN_ABI_VERSION + 1,
             has_create |-> TRUE, has_info |-> TRUE, has_destroy |-> TRUE,
             creates |-> TRUE, name |-> "bad",
             functions |-> {N_snoise}]
      [] path = "plugins/nosym/libNoSym.so" ->
            [exists |-> TRUE, has_abi |-> TRUE, abi |-> PLUGIN_ABI_VERSION,
             has_create |-> TRUE, has_info |-> FALSE, has_destroy |-> TRUE,
             creates |-> TRUE, name |-> "nosym",
             functions |-> {}]
      [] path = "plugins/null/libNull.so" ->
            [exists |-> TRUE, has_abi |-> TRUE, abi |-> PLUGIN_ABI_VERSION,
             has_create |-> TRUE, has_info |-> TRUE, has_destroy |-> TRUE,
             creates |-> FALSE, name |-> "null",
             functions |-> {}]
      [] path = "plugins/nd/libNoDestroy.so" ->
            [exists |-> TRUE, has_abi |-> TRUE, abi |-> PLUGIN_ABI_VERSION,
             has_create |-> TRUE, has_info |-> TRUE, has_destroy |-> FALSE,
             creates |-> TRUE, name |-> "lygia",
             functions |-> {N_random}]
      [] OTHER ->
            [exists |-> FALSE, has_abi |-> FALSE, abi |-> PLUGIN_ABI_VERSION,
             has_create |-> FALSE, has_info |-> FALSE, has_destroy |-> FALSE,
             creates |-> FALSE, name |-> "",
             functions |-> {}]

\* aliases a caller passes to loadPlugin ("" = use the plugin's own name)
AliasInputs == {"", "a"}

\* std::map order of the aliases that can be registered
AliasOrder == <<"a", "lygia", "old">>

\* number of plugin instances that can be alive at once in the model
MaxInstances == 3

InstanceIds == 1..MaxInstances

\* all orderings of a finite set, as sequences (iteration orders of an
\* unordered_map are unspecified)
Orderings(S) ==
    {f \in [1..Cardinality(S) -> S] : \A i, j \in 1..Cardinality(S) : i # j => f[i] # f[j]}

----------------------------------------------------------------------------
(* PluginManager                                                           *)

\* lines 19-31: a library passes the ABI check when it does not export
\* getPluginABIVersion, or exports it and the value equals the host's
AbiCompatible(lib) == ~lib.has_abi \/ lib.abi = PLUGIN_ABI_VERSION

\* line 40: both the factory and the info symbol must be present
HasRequiredSymbols(lib) == lib.has_create /\ lib.has_info

\* line 62
ResolveAlias(alias, lib) == IF alias = "" THEN lib.name ELSE alias

\* a faulty duplicate test: the table is never consulted
AliasNeverInUse(table, plugin_alias) == FALSE

\* line 65
AliasInUse(table, plugin_alias) == plugin_alias \in DOMAIN table

\* DynamicLoader::unloadLibrary / dlclose on an open handle
dlclose(refs, path) == [refs EXCEPT ![path] = @ - 1]

\* the instance id createPlugin() hands out: an unused one
NewInstance(insts) == CHOOSE i \in InstanceIds \ DOMAIN insts :
                        \A j \in InstanceIds \ DOMAIN insts : i <= j

\* remove key k from function f
Without(f, k) == [x \in DOMAIN f \ {k} |-> f[x]]

\* f extended (or overwritten) at key k
With(f, k, v) == [x \in DOMAIN f \cup {k} |-> IF x = k THEN v ELSE f[x]]

\* PluginManager::loadPlugin as a function of the state it reads: the value
\* returned, the new plugin table, handle counts, live instances and the
\* loader/plugin calls made, in order
loadPlugin(table, refs, insts, plugin_path, alias) ==
    LET lib     == Library(plugin_path)
        opened  == [refs EXCEPT ![plugin_path] = @ + 1]
        inst    == NewInstance(insts)
        created == With(insts, inst, [lib |-> plugin_path, data_dir |-> plugin_path])
        plugin_alias == ResolveAlias(alias, lib)
    IN
    IF ~lib.exists THEN
        [ret |-> FALSE, table |-> table, refs |-> refs, insts |-> insts,
         events |-> << >>, why |-> "open"]
    ELSE IF ~AbiCompatible(lib) THEN
        [ret |-> FALSE, table |-> table, refs |-> dlclose(opened, plugin_path),
         insts |-> insts, events |-> <<"dlopen", "dlclose">>, why |-> "abi"]
    ELSE IF ~HasRequiredSymbols(lib) THEN
        [ret |-> FALSE, table |-> table, refs |-> dlclose(opened, plugin_path),
         insts |-> insts, events |-> <<"dlopen", "dlclose">>, why |-> "symbol"]
    ELSE IF ~lib.creates THEN
        [ret |-> FALSE, table |-> table, refs |-> dlclose(opened, plugin_path),
         insts |-> insts, events |-> <<"dlopen", "createPlugin", "dlclose">>,
         why |-> "null"]
    ELSE IF AliasInUse(table, plugin_alias) THEN
        IF lib.has_destroy
        THEN [ret |-> FALSE, table |-> table, refs |-> dlclose(opened, plugin_path),
              insts |-> insts,
              events |-> <<"dlopen", "createPlugin", "destroyPlugin", "dlclose">>,
              why |-> "duplicate"]
        ELSE [ret |-> FALSE, table |-> table, refs |-> dlclose(opened, plugin_path),
              insts |-> created,
              events |-> <<"dlopen", "createPlugin", "dlclose">>,
              why |-> "duplicate"]
    ELSE
        [ret |-> TRUE,
         table |-> With(table, plugin_alias,
                        [handle |-> plugin_path, interface |-> inst,
                         name |-> lib.name, path |-> plugin_path]),
         refs |-> opened, insts |-> created,
         events |-> <<"dlopen", "createPlugin">>, why |-> "loaded"]

\* does this call reach createPlugin() and get an instance back
LoadCreatesInstance(plugin_path) ==
    LET lib == Library(plugin_path)
    IN lib.exists /\ AbiCompatible(lib) /\ HasRequiredSymbols(lib) /\ lib.creates

LoadPlugin(plugin_path, alias) ==
    /\ LoadCreatesInstance(plugin_path) => InstanceIds \ DOMAIN instances # {}
    /\ \E o \in {loadPlugin(loaded_plugins, lib_refs, instances, plugin_path, alias)} :
          /\ loaded_plugins' = o.table
          /\ lib_refs' = o.refs
          /\ instances' = o.insts
          /\ plugin_call' = [op |-> "loadPlugin", path |-> plugin_path, alias |-> alias,
                             ret |-> o.ret, why |-> o.why, events |-> o.events]
    /\ UNCHANGED <<host_node, shaderVars, graphVars, codegen_call, analyzer_call, parser_call, oscVars>>

\* LoadedPlugin::~LoadedPlugin applied to one registration
DestroyLoadedPlugin(reg, st) ==
    IF Library(reg.handle).has_destroy
    THEN [refs |-> dlclose(st.refs, reg.handle),
          insts |-> Without(st.insts, reg.interface),
          events |-> st.events \o <<"destroyPlugin", "dlclose">>]
    ELSE [refs |-> dlclose(st.refs, reg.handle),
          insts |-> st.insts,
          events |-> st.events \o <<"dlclose">>]

RECURSIVE DestroyAll(_, _, _)
DestroyAll(table, order, st) ==
    IF order = << >> THEN st
    ELSE DestroyAll(table, Tail(order), DestroyLoadedPlugin(table[Head(order)], st))

UnloadPlugin(alias) ==
    /\ IF alias \in DOMAIN loaded_plugins
       THEN LET o == DestroyLoadedPlugin(loaded_plugins[alias],
                        [refs |-> lib_refs, insts |-> instances, events |-> << >>])
            IN /\ loaded_plugins' = Without(loaded_plugins, alias)
               /\ lib_refs' = o.refs
               /\ instances' = o.insts
               /\ plugin_call' = [op |-> "unloadPlugin", path |-> "", alias |-> alias,
                                  ret |-> TRUE, why |-> "unloaded", events |-> o.events]
       ELSE /\ UNCHANGED <<loaded_plugins, lib_refs, instances>>
            /\ plugin_call' = [op |-> "unloadPlugin", path |-> "", alias |-> alias,
                               ret |-> FALSE, why |-> "absent", events |-> << >>]
    /\ UNCHANGED <<host_node, shaderVars, graphVars, codegen_call, analyzer_call, parser_call, oscVars>>

UnloadAllPlugins ==
    /\ \E order \in Orderings(DOMAIN loaded_plugins) :
         LET o == DestroyAll(loaded_plugins, order,
                     [refs |-> lib_refs, insts |-> instances, events |-> << >>])
         IN /\ loaded_plugins' = EmptyMap
            /\ lib_refs' = o.refs
            /\ instances' = o.insts
            /\ plugin_call' = [op |-> "unloadAllPlugins", path |-> "", alias |-> "",
                               ret |-> TRUE, why |-> "unloaded", events |-> o.events]
    /\ UNCHANGED <<host_node, shaderVars, graphVars, codegen_call, analyzer_call, parser_call, oscVars>>

\* PluginManager::findFunction(name): is the name offered by a loaded plugin
PluginsOffering(table, function_name) ==
    {a \in DOMAIN table : function_name \in Library(table[a].handle).functions}

findFunction(table, function_name) == PluginsOffering(table, function_name) # {}

----------------------------------------------------------------------------
(* BuiltinVariables                                                        *)

\* BuiltinVariables::initializeBuiltins
BuiltinNames == {A_st, A_time, A_resolution, A_gl_FragCoord}

getBuiltinInfo(name) ==
    CASE name = A_st ->
            [glsl_type |-> "vec2", component_count |-> 2,
             needs_uniform |-> TRUE, needs_declaration |-> TRUE]
      [] name = A_time ->
            [glsl_type |-> "float", component_count |-> 1,
             needs_uniform |-> TRUE, needs_declaration |-> FALSE]
      [] name = A_resolution ->
            [glsl_type |-> "vec2", component_count |-> 2,
             needs_uniform |-> TRUE, needs_declaration |-> FALSE]
      [] name = A_gl_FragCoord ->
            [glsl_type |-> "vec4", component_count |-> 4,
             needs_uniform |-> FALSE, needs_declaration |-> FALSE]

isBuiltin(name) == name \in BuiltinNames

extractBaseVariable(variable) ==
    LET dot_pos == FindChar(variable, ".")
    IN IF dot_pos # 0 THEN SubSeq(variable, 1, dot_pos - 1) ELSE variable

hasSwizzle(variable) == FindChar(variable, ".") # 0

extractSwizzle(variable) ==
    LET dot_pos == FindChar(variable, ".")
    IN IF dot_pos # 0 /\ dot_pos < Len(variable)
       THEN SubSeq(variable, dot_pos + 1, Len(variable))
       ELSE EmptyStr

\* BuiltinVariables::isFloatLiteral: digits with at most one '.'
BV_isFloatLiteral(str) ==
    /\ str # EmptyStr
    /\ \A i \in 1..Len(str) : str[i] = "." \/ str[i] \in Digits
    /\ Cardinality({i \in 1..Len(str) : str[i] = "."}) <= 1

getSupportedSwizzleComponents(baseVariable) ==
    IF ~isBuiltin(baseVariable) THEN {}
    ELSE CASE getBuiltinInfo(baseVariable).component_count = 1 -> {"x"}
           [] getBuiltinInfo(baseVariable).component_count = 2 -> {"x", "y"}
           [] getBuiltinInfo(baseVariable).component_count = 3 -> {"x", "y", "z"}
           [] getBuiltinInfo(baseVariable).component_count = 4 -> {"x", "y", "z", "w"}
           [] OTHER -> {}

formatSupportedComponents(componentCount) ==
    CASE componentCount = 1 -> <<"x">>
      [] componentCount = 2 -> <<"x", "y">>
      [] componentCount = 3 -> <<"x", "y", "z">>
      [] componentCount = 4 -> <<"x", "y", "z", "w">>
      [] OTHER -> << >>

NoMessage == << >>

\* BuiltinVariables::isValidSwizzle: [valid, errorMessage]
isValidSwizzle(variable) ==
    LET baseVar == extractBaseVariable(variable)
        swizzle == extractSwizzle(variable)
    IN
    IF BV_isFloatLiteral(variable) THEN [valid |-> TRUE, errorMessage |-> NoMessage]
    ELSE IF ~hasSwizzle(variable) THEN [valid |-> TRUE, errorMessage |-> NoMessage]
    ELSE IF ~isBuiltin(baseVar)
         THEN [valid |-> FALSE, errorMessage |-> <<"Unknown variable", baseVar>>]
    ELSE IF \E i \in 1..Len(swizzle) :
                swizzle[i] \notin getSupportedSwizzleComponents(baseVar)
         THEN [valid |-> FALSE,
               errorMessage |-> <<"Invalid swizzle", variable, baseVar,
                  formatSupportedComponents(getBuiltinInfo(baseVar).component_count)>>]
    ELSE [valid |-> TRUE, errorMessage |-> NoMessage]

----------------------------------------------------------------------------
(* ShaderNode                                                              *)

ShaderNodeStates == {"CREATED", "COMPILING", "IDLE", "CONNECTED", "ERROR"}

NoCode == << >>

\* ShaderNode::ShaderNode(func_name, args)
NewShaderNode(func_name, args) ==
    [function_name |-> func_name, arguments |-> args,
     vertex_shader_code |-> NoCode, fragment_shader_code |-> NoCode,
     glsl_function_code |-> NoCode,
     auto_update_time |-> FALSE, auto_update_resolution |-> FALSE,
     is_compiled |-> FALSE, has_error |-> FALSE, error_message |-> NoMessage,
     node_state |-> "CREATED", is_connected_to_output |-> FALSE,
     loaded |-> FALSE]

\* ShaderNode::setState
setState(n, state) ==
    IF n.node_state = state THEN n
    ELSE LET old_state == n.node_state
             m == [n EXCEPT !.node_state = state]
         IN IF state = "ERROR"
            THEN [m EXCEPT !.has_error = TRUE, !.is_compiled = FALSE]
            ELSE IF state = "IDLE" /\ old_state = "COMPILING" THEN m
            ELSE IF state = "CONNECTED"
            THEN [m EXCEPT !.is_connected_to_output = TRUE]
            ELSE IF state = "IDLE" /\ old_state = "CONNECTED"
            THEN [m EXCEPT !.is_connected_to_output = FALSE]
            ELSE m

\* ShaderNode::setError
setError(n, error) ==
    [n EXCEPT !.has_error = TRUE, !.error_message = error, !.is_compiled = FALSE]

\* a faulty readiness test: every node counts as ready
isReadyAlways(n) == TRUE

\* ShaderNode::isReady
isReady(n) == n.is_compiled /\ ~n.has_error /\ n.loaded

\* ShaderNode::getState
getState(n) == n.node_state

\* ShaderNode::setConnectedToOutput
setConnectedToOutput(n, connected) ==
    LET m == [n EXCEPT !.is_connected_to_output = connected]
    IN IF connected THEN setState(m, "CONNECTED") ELSE setState(m, "IDLE")

\* what the external GPU compiler does with one program: it compiles and
\* links, reports failure, or throws
GpuOutcomes == {"ok", "fail", "throw"}

\* ShaderNode::compile
compile(n, gpu) ==
    LET c == setState(n, "COMPILING")
    IN IF c.vertex_shader_code = NoCode \/ c.fragment_shader_code = NoCode
       THEN setError(c, <<"Shader code not set before compilation">>)
       ELSE IF gpu = "ok"
            THEN setState([c EXCEPT !.loaded = TRUE, !.is_compiled = TRUE,
                                    !.has_error = FALSE,
                                    !.error_message = NoMessage], "IDLE")
       ELSE IF gpu = "fail"
            THEN setError([c EXCEPT !.loaded = FALSE],
                          <<"Failed to compile or link shader program">>)
       ELSE setError([c EXCEPT !.loaded = FALSE],
                     <<"Exception during shader compilation">>)

----------------------------------------------------------------------------
(* ShaderManager                                                           *)

\* GLSL source files present on disk, as (plugin library, function) pairs:
\* the file of function f of the plugin loaded from library l is
\* <directory of l> + <filePath of f>
ExistingFiles == {<<"plugins/lygia/libLygia.so", N_snoise>>,
                  <<"plugins/lygia/libLygia.so", N_random>>,
                  <<"plugins/lygia/libLygia.so", N_sin>>,
                  <<"plugins/nd/libNoDestroy.so", N_random>>}

\* the null shared_ptr
NullObj == 0

\* ShaderManager::isFloatLiteral: digits, at most one '.', optional leading '-'
SM_isFloatLiteral(str) ==
    /\ str # EmptyStr
    /\ \A i \in 1..Len(str) :
          str[i] = "." \/ str[i] \in Digits \/ (i = 1 /\ str[i] = "-")
    /\ Cardinality({i \in 1..Len(str) : str[i] = "."}) <= 1

\* ShaderManager::generateCacheKey
generateCacheKey(function_name, arguments) ==
    function_name \o JoinWith(<<"_">>, arguments)

\* a faulty lookup: the cache never answers
getCachedShaderMiss(cache, shader_key) == NullObj

\* ShaderManager::getCachedShader
getCachedShader(cache, shader_key) ==
    IF shader_key \in DOMAIN cache THEN cache[shader_key] ELSE NullObj

\* ShaderManager::cacheShader
cacheShader(cache, shader_key, obj) == With(cache, shader_key, obj)

\* a faulty error path: the node is returned without recording the error
createErrorShaderSilent(function_name, arguments, error_message) ==
    NewShaderNode(function_name, arguments)

\* ShaderManager::createErrorShader
createErrorShader(function_name, arguments, error_message) ==
    setError(NewShaderNode(function_name, arguments), error_message)

\* ShaderManager::generateUniforms: the set of uniform declarations
SM_generateUniforms(arguments) ==
    LET needed_uniforms ==
          {IF isBuiltin(extractBaseVariable(arguments[i]))
           THEN (IF extractBaseVariable(arguments[i]) = A_st
                 THEN A_resolution ELSE extractBaseVariable(arguments[i]))
           ELSE arguments[i] :
             i \in {k \in 1..Len(arguments) :
                      /\ ~SM_isFloatLiteral(arguments[k])
                      /\ (isBuiltin(extractBaseVariable(arguments[k])) =>
                            getBuiltinInfo(extractBaseVariable(arguments[k])).needs_uniform)}}
    IN {[name |-> u, type |-> IF u = A_resolution THEN "vec2" ELSE "float"] :
            u \in needed_uniforms}

\* ShaderManager::generateVertexShader
generateVertexShader == <<"default_vertex_shader">>

\* ShaderManager::generateFragmentShader: the template with its three slots filled
SM_generateFragmentShader(glsl_function_code, function_name, arguments) ==
    [uniforms |-> SM_generateUniforms(arguments),
     glsl_function |-> glsl_function_code,
     call |-> function_name, call_arguments |-> arguments]

\* the alias createShader settles on: the first one, in std::map order, whose
\* plugin lists the function
OwningPlugin(table, function_name) ==
    LET offering == PluginsOffering(table, function_name)
        i == CHOOSE k \in 1..Len(AliasOrder) :
                /\ AliasOrder[k] \in offering
                /\ \A j \in 1..(k-1) : AliasOrder[j] \notin offering
    IN AliasOrder[i]

\* ShaderManager::loadGLSLFunction: the file's text, "" when it cannot be read
loadGLSLFunction(table, function_name, plugin_name) ==
    IF <<table[plugin_name].handle, function_name>> \in ExistingFiles
    THEN <<"source of", function_name>>
    ELSE NoCode

\* a faulty validation loop: it keeps going and reports the last rejected argument
LastInvalidArgument(arguments) ==
    IF \E i \in 1..Len(arguments) : ~isValidSwizzle(arguments[i]).valid
    THEN CHOOSE i \in 1..Len(arguments) :
            /\ ~isValidSwizzle(arguments[i]).valid
            /\ \A j \in (i+1)..Len(arguments) : isValidSwizzle(arguments[j]).valid
    ELSE 0

\* index of the first argument isValidSwizzle rejects, 0 when there is none
FirstInvalidArgument(arguments) ==
    IF \E i \in 1..Len(arguments) : ~isValidSwizzle(arguments[i]).valid
    THEN CHOOSE i \in 1..Len(arguments) :
            /\ ~isValidSwizzle(arguments[i]).valid
            /\ \A j \in 1..(i-1) : isValidSwizzle(arguments[j]).valid
    ELSE 0

\* createShader lines 153-175: auto-update flags from the arguments' base variables
ConfigureAutoUniforms(n, arguments) ==
    LET has_time == \E i \in 1..Len(arguments) : extractBaseVariable(arguments[i]) = A_time
        has_st   == \E i \in 1..Len(arguments) : extractBaseVariable(arguments[i]) = A_st
    IN [n EXCEPT !.auto_update_time = (@ \/ has_time),
                 !.auto_update_resolution = (@ \/ has_st)]

\* the id the next shared ShaderNode gets: one no live object has
NewObject(heap) == CHOOSE i \in 1..(Cardinality(DOMAIN heap) + 1) : i \notin DOMAIN heap

\* ShaderManager::createShader as a function of what it reads.  ret: the
\* object returned (an existing cached one, or `fresh`); node: the record of
\* the returned object when it is a new one; cache: the cache afterwards;
\* steps: the stages that ran, in order
createShader(cache, heap, table, function_name, arguments, gpu) ==
    LET bad        == FirstInvalidArgument(arguments)
        cache_key  == generateCacheKey(function_name, arguments)
        cached     == getCachedShader(cache, cache_key)
        fresh      == NewObject(heap)
        shader_node == NewShaderNode(function_name, arguments)
        plugin_name == OwningPlugin(table, function_name)
        glsl_function_code == loadGLSLFunction(table, function_name, plugin_name)
        with_code  == [shader_node EXCEPT
                         !.glsl_function_code = glsl_function_code,
                         !.vertex_shader_code = generateVertexShader,
                         !.fragment_shader_code =
                             SM_generateFragmentShader(glsl_function_code,
                                                       function_name, arguments)]
        compiled   == compile(with_code, gpu)
    IN
    IF bad # 0 THEN
        [ret |-> fresh, is_new |-> TRUE, cache |-> cache,
         node |-> createErrorShader(function_name, arguments,
                                    isValidSwizzle(arguments[bad]).errorMessage),
         steps |-> <<"validate">>]
    ELSE IF cached # NullObj /\ isReady(heap[cached]) THEN
        [ret |-> cached, is_new |-> FALSE, cache |-> cache, node |-> heap[cached],
         steps |-> <<"validate", "cache_lookup">>]
    ELSE IF ~findFunction(table, function_name) THEN
        [ret |-> fresh, is_new |-> TRUE, cache |-> cache,
         node |-> createErrorShader(function_name, arguments,
                    <<"Function not found in any loaded plugin", function_name>>),
         steps |-> <<"validate", "cache_lookup", "findFunction">>]
    ELSE IF glsl_function_code = NoCode THEN
        [ret |-> fresh, is_new |-> TRUE, cache |-> cache,
         node |-> createErrorShader(function_name, arguments,
                    <<"Failed to load GLSL code for function", function_name>>),
         steps |-> <<"validate", "cache_lookup", "findFunction", "loadGLSLFunction">>]
    ELSE IF ~isReady(compiled) THEN
        [ret |-> fresh, is_new |-> TRUE, cache |-> cache, node |-> compiled,
         steps |-> <<"validate", "cache_lookup", "findFunction", "loadGLSLFunction",
                     "generate", "compile">>]
    ELSE
        [ret |-> fresh, is_new |-> TRUE,
         cache |-> cacheShader(cache, cache_key, fresh),
         node |-> ConfigureAutoUniforms(compiled, arguments),
         steps |-> <<"validate", "cache_lookup", "findFunction", "loadGLSLFunction",
                     "generate", "compile", "cacheShader">>]

\* objects some shared_ptr still refers to
Range(f) == {f[x] : x \in DOMAIN f}

LiveObjects(cache, gcache, rets) == (Range(cache) \cup Range(gcache) \cup rets) \ {NullObj}

\* function names and argument lists offered to createShader
A_st_q   == <<"s","t",".","q">>
A_st_x   == <<"s","t",".","x">>
A_u_x    == <<"u",".","x">>
A_half   == <<"0",".","5">>

ShaderFunctionNames == {N_snoise, N_cnoise, N_nope}

ShaderArgumentLists ==
    LET A_time_times_2 == <<"t","i","m","e","*","2">>
        A_time_times_half == A_time \o <<"*">> \o A_half
        A_st_time == A_st \o <<"_">> \o A_time
    IN { <<A_st, A_time>>, <<A_st_x, A_time_times_2>>,
         <<A_time, A_u_x, A_st_q>>, <<A_time_times_half>>, <<A_st_time>> }

CreateShader(function_name, arguments, gpu) ==
    /\ \E o \in {createShader(shader_cache, shaders, loaded_plugins,
                               function_name, arguments, gpu)} :
          LET heap == IF o.is_new THEN With(shaders, o.ret, o.node) ELSE shaders
              live == LiveObjects(o.cache, compiled_cache,
                                  {o.ret, graph_call.ret, current_shader}
                                  \cup Range(active_shaders)
                                  \cup Range(sm_active_shaders))
          IN
          /\ shader_cache' = o.cache
          /\ shaders' = [x \in live |-> heap[x]]
          /\ shader_call' = [op |-> "createShader", function_name |-> function_name,
                             arguments |-> arguments, ret |-> o.ret,
                             steps |-> o.steps]
    /\ UNCHANGED <<host_node, pluginVars, graphVars, codegen_call, analyzer_call, parser_call, oscVars>>

\* ShaderManager::clearCache
ClearCache ==
    /\ shader_cache' = EmptyMap
    /\ shaders' = [x \in LiveObjects(EmptyMap, compiled_cache,
                                       {graph_call.ret, current_shader}
                                       \cup Range(active_shaders)
                                       \cup Range(sm_active_shaders))
                       |-> shaders[x]]
    /\ shader_call' = [op |-> "clearCache", function_name |-> EmptyStr,
                       arguments |-> << >>, ret |-> NullObj, steps |-> << >>]
    /\ UNCHANGED <<host_node, pluginVars, graphVars, codegen_call, analyzer_call, parser_call, oscVars>>

----------------------------------------------------------------------------
(* ExpressionParser: the GLSL type of an argument expression                *)

\* [a-zA-Z_][a-zA-Z0-9_]*
isIdentifier(s) ==
    /\ s # EmptyStr
    /\ s[1] \in Letters \cup {"_"}
    /\ \A i \in 1..Len(s) : s[i] \in WordChars

\* ExpressionParser::isSimpleVariable: ^[a-zA-Z_][a-zA-Z0-9_]*(\.?[xyzwrgba]+)?$
isSimpleVariable(expr) ==
    \/ isIdentifier(expr)
    \/ \E d \in 2..(Len(expr) - 1) :
          /\ expr[d] = "."
          /\ isIdentifier(SubSeq(expr, 1, d - 1))
          /\ \A i \in (d + 1)..Len(expr) : expr[i] \in {"x","y","z","w","r","g","b","a"}

\* the test of extractDependenciesManually for a function call: the first
\* occurrence of the match in expr (expr.find) is followed, after blanks, by "("
isFunctionCall(expr, match) ==
    LET match_pos == CHOOSE i \in 1..Len(expr) :
                        /\ StartsWithAt(expr, i, match)
                        /\ \A j \in 1..(i - 1) : ~StartsWithAt(expr, j, match)
        after     == match_pos + Len(match)
        check_pos == CHOOSE k \in after..(Len(expr) + 1) :
                        /\ k > Len(expr) \/ expr[k] # " "
                        /\ \A j \in after..(k - 1) : expr[j] = " "
    IN check_pos <= Len(expr) /\ expr[check_pos] = "("

\* ExpressionParser::extractDependenciesManually: the matches of
\* \b([a-zA-Z_][a-zA-Z0-9_]*(?:\.[a-zA-Z0-9_]+)?)\b from position i on that
\* are not function calls
RECURSIVE extractDependenciesManually(_, _)
extractDependenciesManually(expr, i) ==
    LET e == WordRunEnd(expr, i)
        \* end of the match that starts at i: the word run, then ".word" if any
        match_end == IF e + 1 < Len(expr) /\ expr[e + 1] = "."
                        /\ expr[e + 2] \in WordChars
                     THEN WordRunEnd(expr, e + 2) ELSE e
        match == SubSeq(expr, i, match_end)
    IN
    IF i > Len(expr) THEN {}
    ELSE IF expr[i] \in Letters \cup {"_"} /\ (i = 1 \/ expr[i - 1] \notin WordChars)
    THEN (IF isFunctionCall(expr, match) THEN {} ELSE {match})
         \cup extractDependenciesManually(expr, match_end + 1)
    ELSE extractDependenciesManually(expr, i + 1)

\* ExpressionParser::extractDependencies: the variables of the expression;
\* muParser's GetUsedVar names the same identifiers where it accepts the
\* expression and the manual extraction is the fallback where it does not
extractDependencies(expr) == extractDependenciesManually(expr, 1)

\* ExpressionParser::inferGLSLType: the type of the first dependency that is a
\* bare builtin of a type other than float, float otherwise
inferGLSLType(dependencies) ==
    LET \* std::sort order of the builtin names
        BuiltinOrder == <<A_gl_FragCoord, A_resolution, A_st, A_time>>
        hits == { i \in 1..Len(BuiltinOrder) :
                    /\ BuiltinOrder[i] \in dependencies
                    /\ getBuiltinInfo(BuiltinOrder[i]).glsl_type # "float" }
    IN IF hits = {} THEN "float"
       ELSE getBuiltinInfo(BuiltinOrder[CHOOSE i \in hits :
                                           \A j \in hits : i <= j]).glsl_type

\* ExpressionParser::parseExpression: the ExpressionInfo of an argument.  A
\* simple variable depends on itself; any other expression depends on the
\* variables it mentions and is a constant when it mentions none
parseExpression(expr) ==
    IF isSimpleVariable(expr) THEN
        [glsl_code |-> expr, dependencies |-> {expr},
         is_simple_var |-> TRUE, is_constant |-> FALSE,
         type |->
            IF isBuiltin(extractBaseVariable(expr)) THEN
                IF hasSwizzle(expr) THEN
                    CASE Len(extractSwizzle(expr)) = 1 -> "float"
                      [] Len(extractSwizzle(expr)) = 2 -> "vec2"
                      [] Len(extractSwizzle(expr)) = 3 -> "vec3"
                      [] Len(extractSwizzle(expr)) = 4 -> "vec4"
                      [] OTHER -> "float"
                ELSE getBuiltinInfo(extractBaseVariable(expr)).glsl_type
            ELSE "float"]
    ELSE
        [glsl_code |-> expr, dependencies |-> extractDependencies(expr),
         is_simple_var |-> FALSE,
         is_constant |-> extractDependencies(expr) = {},
         type |-> inferGLSLType(extractDependencies(expr))]

----------------------------------------------------------------------------
(* ShaderCodeGenerator: overload selection and wrapper functions            *)

\* GLSLFunction::overloads of the functions the plugin offers (plugin data)
FunctionOverloads(function_name) ==
    CASE function_name = N_snoise ->
            << [returnType |-> "float", paramTypes |-> <<"vec2">>],
               [returnType |-> "float", paramTypes |-> <<"vec3">>] >>
      [] function_name = N_cnoise ->
            << [returnType |-> "float", paramTypes |-> <<"vec3">>],
               [returnType |-> "float", paramTypes |-> <<"vec3", "float">>] >>
      [] function_name = N_random ->
            << [returnType |-> "float", paramTypes |-> <<"vec2">>] >>
      [] function_name = N_sin ->
            << [returnType |-> "float", paramTypes |-> <<"float">>] >>
      [] OTHER -> << >>

\* plugin_manager->findFunction(function_name)->overloads, empty when no
\* loaded plugin offers the function
FunctionMetadata(table, function_name) ==
    IF findFunction(table, function_name) THEN FunctionOverloads(function_name)
    ELSE << >>

\* components of a GLSL type, as counted in findBestOverloadForArguments
TypeComponents(type) ==
    CASE type = "float" -> 1
      [] type = "vec2" -> 2
      [] type = "vec3" -> 3
      [] type = "vec4" -> 4
      [] OTHER -> 1

RECURSIVE SumComponents(_)
SumComponents(types) ==
    IF types = << >> THEN 0
    ELSE TypeComponents(types[1]) + SumComponents(Tail(types))

\* the types parseArgument finds for the user's arguments
UserArgumentTypes(user_arguments) ==
    [i \in 1..Len(user_arguments) |-> parseExpression(user_arguments[i]).type]

\* ShaderCodeGenerator::findBestOverloadForArguments: the index of the chosen
\* overload in overloads, 0 for nullptr
findBestOverloadForArguments(table, function_name, user_arguments) ==
    LET overloads == FunctionMetadata(table, function_name)
        total == SumComponents(UserArgumentTypes(user_arguments))
        idx   == 1..Len(overloads)
        vec3_float == { i \in idx : overloads[i].paramTypes = <<"vec3", "float">> }
        multi  == { i \in idx : /\ Len(overloads[i].paramTypes) > 1
                                /\ SumComponents(overloads[i].paramTypes) = total }
        exact  == { i \in idx : /\ Len(overloads[i].paramTypes) = 1
                                /\ SumComponents(overloads[i].paramTypes) = total }
        larger == { i \in idx : /\ Len(overloads[i].paramTypes) = 1
                                /\ SumComponents(overloads[i].paramTypes) >= total }
        \* first overload of a set in vector order, 0 (nullptr) when none
        FirstOverload(S) == IF S = {} THEN 0
                            ELSE CHOOSE i \in S : \A j \in S : i <= j
    IN
    IF overloads = << >> THEN 0
    ELSE IF Len(user_arguments) = 4 /\ total = 4 /\ vec3_float # {}
         THEN FirstOverload(vec3_float)
    ELSE IF multi # {} THEN FirstOverload(multi)
    ELSE IF exact # {} THEN FirstOverload(exact)
    ELSE FirstOverload(larger)

NoWrapper == [emitted |-> FALSE, name |-> EmptyStr, returnType |-> "",
              params |-> << >>, calls |-> 0]

S_wrapper == <<"_","w","r","a","p","p","e","r">>

\* ShaderCodeGenerator::generateWrapperFunction: the wrapper it writes, or the
\* empty string (NoWrapper); target_overload is an index, 0 for nullptr
generateWrapperFunction(table, function_name, user_arguments, target_overload) ==
    LET overloads == FunctionMetadata(table, function_name)
        best_overload == findBestOverloadForArguments(table, function_name,
                                                      user_arguments)
    IN
    IF target_overload = 0 THEN NoWrapper
    ELSE IF best_overload # 0 /\ best_overload # target_overload THEN
        [emitted |-> TRUE, name |-> function_name \o S_wrapper,
         returnType |-> overloads[best_overload].returnType,
         params |-> UserArgumentTypes(user_arguments), calls |-> best_overload]
    ELSE IF Len(overloads[target_overload].paramTypes) = 1
            /\ Len(user_arguments) > 1 THEN
        [emitted |-> TRUE, name |-> function_name \o S_wrapper,
         returnType |-> overloads[target_overload].returnType,
         params |-> UserArgumentTypes(user_arguments), calls |-> target_overload]
    ELSE NoWrapper

\* std::to_string of the value of a constant argument written digits[.digits]:
\* six digits after the point
ConstantText(expr) ==
    LET dot  == FindChar(expr, ".")
        frac == IF dot = 0 THEN << >> ELSE SubSeq(expr, dot + 1, Len(expr))
        int  == IF dot = 0 THEN expr ELSE SubSeq(expr, 1, dot - 1)
    IN int \o <<".">> \o [k \in 1..6 |-> IF k <= Len(frac) THEN frac[k] ELSE "0"]

\* ShaderCodeGenerator::convertArgumentsForCall
convertArgumentsForCall(arguments) ==
    [i \in 1..Len(arguments) |->
        IF parseExpression(arguments[i]).is_constant THEN ConstantText(arguments[i])
        ELSE IF parseExpression(arguments[i]).is_simple_var
             THEN parseExpression(arguments[i]).glsl_code
        ELSE <<"_","e","x","p","r">> \o to_string(i - 1)]

\* ShaderCodeGenerator::generateUniforms: the set of uniform declarations
generateUniforms(arguments) ==
    LET needed_uniforms ==
          UNION { { IF isBuiltin(extractBaseVariable(dep))
                       /\ getBuiltinInfo(extractBaseVariable(dep)).needs_uniform
                    THEN (IF extractBaseVariable(dep) = A_st THEN A_resolution
                          ELSE extractBaseVariable(dep))
                    ELSE dep :
                      dep \in { d \in parseExpression(arguments[i]).dependencies :
                                  \/ /\ isBuiltin(extractBaseVariable(d))
                                     /\ getBuiltinInfo(extractBaseVariable(d)).needs_uniform
                                  \/ ~parseExpression(arguments[i]).is_constant } } :
                  i \in 1..Len(arguments) }
    IN {[name |-> u, type |-> IF u = A_resolution THEN "vec2" ELSE "float"] :
            u \in needed_uniforms}

\* ShaderCodeGenerator::generateTempVariables: one _expr<i> per argument that
\* is neither a simple variable nor a constant
generateTempVariables(arguments) ==
    { [name |-> <<"_","e","x","p","r">> \o to_string(i - 1),
       type |-> parseExpression(arguments[i]).type,
       value |-> parseExpression(arguments[i]).glsl_code] :
        i \in { k \in 1..Len(arguments) :
                  /\ ~parseExpression(arguments[k]).is_simple_var
                  /\ ~parseExpression(arguments[k]).is_constant } }

\* ShaderCodeGenerator::generateMainFunction: the temporaries, the call that
\* computes result, and the type result is declared with
generateMainFunction(table, function_name, arguments) ==
    LET overloads   == FunctionMetadata(table, function_name)
        call_args   == convertArgumentsForCall(arguments)
        use_wrapper == /\ overloads # << >>
                       /\ Len(overloads[1].paramTypes) = 1
                       /\ Len(call_args) > 1
        best_overload == findBestOverloadForArguments(table, function_name, arguments)
    IN [temp_vars |-> generateTempVariables(arguments),
        func_to_call |-> IF use_wrapper THEN function_name \o S_wrapper
                         ELSE function_name,
        call_args |-> call_args,
        return_type |-> IF overloads = << >> THEN "vec3"
                        ELSE IF best_overload # 0
                             THEN overloads[best_overload].returnType
                        ELSE overloads[1].returnType]

\* ShaderCodeGenerator::generateFragmentShader: the template with {UNIFORMS},
\* {GLSL_FUNCTION} (the function's code, then the wrapper written against
\* overloads[0], if any) and {MAIN_CONTENT} filled, in the template's order
generateFragmentShader(table, glsl_function_code, function_name, arguments) ==
    [uniforms |-> generateUniforms(arguments),
     glsl_function |-> glsl_function_code,
     wrapper_functions |->
        generateWrapperFunction(table, function_name, arguments,
            IF FunctionMetadata(table, function_name) = << >> THEN 0 ELSE 1),
     main |-> generateMainFunction(table, function_name, arguments)]

----------------------------------------------------------------------------
(* MinimalBuiltinChecker / FunctionDependencyAnalyzer::classifyFunction     *)

N_cos == <<"c","o","s">>
N_mix == <<"m","i","x">>
N_max == <<"m","a","x">>

\* the names of the GLSL built-in function registry that occur in the
\* model's inputs (the registry holds the whole GLSL list)
BuiltinFunctionNames == {N_sin, N_cos, N_mix, N_max}

\* MinimalBuiltinChecker::isBuiltinFunction
isBuiltinFunction(function_name) == function_name \in BuiltinFunctionNames

\* a faulty classification: every name passes for a GLSL built-in
classifyAsBuiltin(table, function_name) == "GLSL_BUILTIN"

N_int  == <<"i","n","t">>
N_vec2 == <<"v","e","c","2">>

\* names of MinimalBuiltinChecker's data type sets that requests use
BuiltinDataTypeNames == {N_int, N_vec2}

\* MinimalBuiltinChecker::isBuiltinDataType
isBuiltinDataType(type_name) == type_name \in BuiltinDataTypeNames

\* FunctionDependencyAnalyzer::classifyFunction
classifyFunction(table, function_name) ==
    IF isBuiltinFunction(function_name) THEN "GLSL_BUILTIN"
    ELSE IF findFunction(table, function_name) THEN "PLUGIN_FUNCTION"
    ELSE "UNKNOWN_FUNCTION"

----------------------------------------------------------------------------
(* FunctionDependencyAnalyzer                                              *)

\* the characters trim() removes and \s matches
Whitespace == {" ", "\t", "\n", "\r"}

\* FunctionDependencyAnalyzer::trim
trim(str) ==
    LET solid == { i \in 1..Len(str) : str[i] \notin Whitespace }
    IN IF solid = {} THEN EmptyStr
       ELSE SubSeq(str, CHOOSE i \in solid : \A j \in solid : i <= j,
                        CHOOSE i \in solid : \A j \in solid : i >= j)

\* a faulty split: every comma separates two arguments, nested or not
RECURSIVE parseArgumentListAllCommas(_)
parseArgumentListAllCommas(raw_arguments) ==
    LET comma == FindChar(raw_arguments, ",")
        first == trim(IF comma = 0 THEN raw_arguments
                      ELSE SubSeq(raw_arguments, 1, comma - 1))
        rest  == IF comma = 0 THEN << >>
                 ELSE parseArgumentListAllCommas(
                          SubSeq(raw_arguments, comma + 1, Len(raw_arguments)))
    IN IF raw_arguments = EmptyStr THEN << >>
       ELSE (IF first = EmptyStr THEN << >> ELSE <<first>>) \o rest

\* the loop of parseArgumentList from character i on, with the depth, the
\* argument being collected and the arguments found so far
RECURSIVE parseArgumentListFrom(_, _, _, _, _)
parseArgumentListFrom(raw_arguments, i, paren_depth, current_arg, result) ==
    IF i > Len(raw_arguments) THEN
        IF trim(current_arg) # EmptyStr THEN Append(result, trim(current_arg))
        ELSE result
    ELSE IF raw_arguments[i] = "(" THEN
        parseArgumentListFrom(raw_arguments, i + 1, paren_depth + 1,
                              Append(current_arg, "("), result)
    ELSE IF raw_arguments[i] = ")" THEN
        parseArgumentListFrom(raw_arguments, i + 1, paren_depth - 1,
                              Append(current_arg, ")"), result)
    ELSE IF raw_arguments[i] = "," /\ paren_depth = 0 THEN
        parseArgumentListFrom(raw_arguments, i + 1, paren_depth, EmptyStr,
            IF trim(current_arg) # EmptyStr THEN Append(result, trim(current_arg))
            ELSE result)
    ELSE parseArgumentListFrom(raw_arguments, i + 1, paren_depth,
                               Append(current_arg, raw_arguments[i]), result)

\* FunctionDependencyAnalyzer::parseArgumentList
parseArgumentList(raw_arguments) ==
    IF raw_arguments = EmptyStr THEN << >>
    ELSE parseArgumentListFrom(raw_arguments, 1, 0, EmptyStr, << >>)

\* FunctionDependencyAnalyzer::findMatchingParenthesis: the index of the ")"
\* that closes the "(" at start_pos, 0 (npos) when there is none
findMatchingParenthesis(expression, start_pos) ==
    LET depth(i) == Cardinality({k \in start_pos..i : expression[k] = "("})
                    - Cardinality({k \in start_pos..i : expression[k] = ")"})
        closing  == { i \in start_pos..Len(expression) : depth(i) = 0 }
    IN IF start_pos > Len(expression) \/ expression[start_pos] # "(" \/ closing = {}
       THEN 0
       ELSE CHOOSE i \in closing : \A j \in closing : i <= j

\* FunctionDependencyAnalyzer::extractFunctionCalls: the matches of
\* \b([a-zA-Z_][a-zA-Z0-9_]*)\s*\( whose parenthesis is closed, each with its
\* name and the arguments between the parentheses
extractFunctionCalls(expression) ==
    LET paren(i) == CHOOSE p \in (WordRunEnd(expression, i) + 1)..(Len(expression) + 1) :
                       /\ p > Len(expression) \/ expression[p] \notin Whitespace
                       /\ \A k \in (WordRunEnd(expression, i) + 1)..(p - 1) :
                             expression[k] \in Whitespace
        matches == { i \in 1..Len(expression) :
                       /\ expression[i] \in Letters \cup {"_"}
                       /\ (i = 1 \/ expression[i - 1] \notin WordChars)
                       /\ paren(i) <= Len(expression)
                       /\ expression[paren(i)] = "("
                       /\ findMatchingParenthesis(expression, paren(i)) # 0 }
    IN { [function_name |-> SubSeq(expression, i, WordRunEnd(expression, i)),
          arguments |-> parseArgumentList(
                            SubSeq(expression, paren(i) + 1,
                                   findMatchingParenthesis(expression, paren(i)) - 1))] :
           i \in matches }

\* FunctionDependencyAnalyzer::findAllDependencies: the names of the calls of
\* an expression and, recursively, of the calls' arguments
RECURSIVE findAllDependencies(_)
findAllDependencies(expression) ==
    { call.function_name : call \in extractFunctionCalls(expression) }
    \cup UNION { UNION { findAllDependencies(call.arguments[k]) :
                           k \in 1..Len(call.arguments) } :
                 call \in extractFunctionCalls(expression) }

\* the order of std::string: characters by code, a prefix before its extensions
RECURSIVE StringLess(_, _)
StringLess(a, b) ==
    LET code(c) == CHOOSE n \in 1..63 :
                      <<"0","1","2","3","4","5","6","7","8","9",
                        "A","B","C","D","E","F","G","H","I","J","K","L","M",
                        "N","O","P","Q","R","S","T","U","V","W","X","Y","Z","_",
                        "a","b","c","d","e","f","g","h","i","j","k","l","m",
                        "n","o","p","q","r","s","t","u","v","w","x","y","z">>[n] = c
    IN IF b = << >> THEN FALSE
       ELSE IF a = << >> THEN TRUE
       ELSE IF a[1] = b[1] THEN StringLess(Tail(a), Tail(b))
       ELSE code(a[1]) < code(b[1])

\* classifyFunction's error message for an unknown function
UnknownFunctionMessage(function_name) ==
    <<"Function not found in GLSL built-ins or plugins", function_name>>

\* FunctionDependencyAnalyzer::analyzeCreateMessage: the found functions are
\* classified in std::set order and the first unknown one ends the analysis
analyzeCreateMessage(table, main_function, raw_arguments) ==
    LET final_arguments == parseArgumentList(raw_arguments)
        all_found_functions ==
            UNION { findAllDependencies(final_arguments[k]) :
                      k \in 1..Len(final_arguments) }
        unknown == { f \in all_found_functions :
                       classifyFunction(table, f) = "UNKNOWN_FUNCTION" }
        first_unknown == CHOOSE f \in unknown :
                            \A g \in unknown \ {f} : StringLess(f, g)
        classified == IF unknown = {} THEN all_found_functions
                      ELSE { f \in all_found_functions :
                               f = first_unknown \/ StringLess(f, first_unknown) }
        kind(S, k) == { f \in S : classifyFunction(table, f) = k }
    IN
    IF classifyFunction(table, main_function) = "UNKNOWN_FUNCTION" THEN
        [is_valid |-> FALSE, error_message |-> UnknownFunctionMessage(main_function),
         final_arguments |-> << >>, classified_functions |-> {},
         required_plugin_functions |-> {}, used_builtin_functions |-> {}]
    ELSE IF unknown # {} THEN
        [is_valid |-> FALSE, error_message |-> UnknownFunctionMessage(first_unknown),
         final_arguments |-> final_arguments,
         classified_functions |-> classified \cup {main_function},
         required_plugin_functions |->
            kind(classified \ {first_unknown}, "PLUGIN_FUNCTION"),
         used_builtin_functions |->
            kind(classified \ {first_unknown}, "GLSL_BUILTIN")]
    ELSE
        [is_valid |-> TRUE, error_message |-> NoMessage,
         final_arguments |-> final_arguments,
         classified_functions |-> all_found_functions \cup {main_function},
         required_plugin_functions |->
            kind(all_found_functions \cup {main_function}, "PLUGIN_FUNCTION"),
         used_builtin_functions |->
            kind(all_found_functions \cup {main_function}, "GLSL_BUILTIN")]

----------------------------------------------------------------------------
(* ShaderCompositionEngine                                                 *)

S_shader_ == <<"s","h","a","d","e","r","_">>
S_dollar_shader_ == <<"$">> \o S_shader_
S_result == <<"_","r","e","s","u","l","t">>
S_graph_ == <<"g","r","a","p","h","_">>

\* one attempt of the regex (?:^|\$)(shader_\w+) at start position i:
\* the text captured by group 1, or the empty string when it does not match
ShaderRefMatchAt(arg, i) ==
    IF i = 1 /\ StartsWithAt(arg, 1, S_shader_) /\ WordRunEnd(arg, 8) >= 8
    THEN SubSeq(arg, 1, WordRunEnd(arg, 8))
    ELSE IF StartsWithAt(arg, i, S_dollar_shader_) /\ WordRunEnd(arg, i + 8) >= i + 8
    THEN SubSeq(arg, i + 1, WordRunEnd(arg, i + 8))
    ELSE EmptyStr

RECURSIVE ShaderRefSearchFrom(_, _)
\* the regex engine trying start positions i, i+1, ... in turn
ShaderRefSearchFrom(arg, i) ==
    IF i > Len(arg) THEN EmptyStr
    ELSE IF ShaderRefMatchAt(arg, i) # EmptyStr THEN ShaderRefMatchAt(arg, i)
    ELSE ShaderRefSearchFrom(arg, i + 1)

\* std::regex_search(arg, match, shader_ref_regex); match[1]: the capture of
\* the leftmost match, or the empty string when nothing matches
ShaderRefSearch(arg) == ShaderRefSearchFrom(arg, 1)

\* CompositionNode::CompositionNode
NewCompositionNode(func_name, args, id) ==
    [function_name |-> func_name, arguments |-> args, node_id |-> id,
     input_nodes |-> << >>, resolved_arguments |-> << >>,
     is_external_dependency |-> FALSE]

\* ShaderCompositionEngine::generateUniqueNodeId (the id; the counter is
\* advanced by the caller's action)
generateUniqueNodeId(counter) == S_shader_ \o to_string(counter)

\* ShaderCompositionEngine::hasNode
hasNode(nodes, node_id) == node_id \in DOMAIN nodes

RECURSIVE ResolveArgs(_, _, _)
\* the loop of resolveDependencies from argument i on: [ok, node]
ResolveArgs(nodes, node, i) ==
    IF i > Len(node.arguments) THEN [ok |-> TRUE, node |-> node]
    ELSE LET referenced_id == ShaderRefSearch(node.arguments[i])
         IN IF referenced_id = EmptyStr THEN ResolveArgs(nodes, node, i + 1)
            ELSE IF referenced_id \in DOMAIN nodes
            THEN ResolveArgs(nodes,
                     [node EXCEPT !.input_nodes = Append(@, referenced_id),
                                  !.is_external_dependency = TRUE], i + 1)
            ELSE [ok |-> FALSE, node |-> node]

\* ShaderCompositionEngine::resolveDependencies
resolveDependencies(nodes, node) ==
    ResolveArgs(nodes,
                [node EXCEPT !.input_nodes = << >>,
                             !.resolved_arguments = node.arguments], 1)

RECURSIVE ResolveAll(_, _)
\* analyzeDependencies lines 232-238, visiting the nodes in the given order
ResolveAll(nodes, order) ==
    IF order = << >> THEN [ok |-> TRUE, nodes |-> nodes]
    ELSE LET r == resolveDependencies(nodes, nodes[Head(order)])
             updated == [nodes EXCEPT ![Head(order)] = r.node]
         IN IF r.ok THEN ResolveAll(updated, Tail(order))
            ELSE [ok |-> FALSE, nodes |-> updated]

\* topologicalSortDFS line 417-418
MarkVisiting(st, node_id) ==
    [st EXCEPT !.visited = @ \cup {node_id}, !.rec_stack = @ \cup {node_id}]

\* topologicalSortDFS line 439-440
MarkDone(st, node_id) ==
    [st EXCEPT !.rec_stack = @ \ {node_id}, !.sorted = Append(@, node_id)]

RECURSIVE topologicalSortDFS(_, _, _, _)
RECURSIVE VisitDependencies(_, _, _, _, _)

\* the for loop of topologicalSortDFS over input_nodes, from index i on
VisitDependencies(nodes, node_id, i, st, depth) ==
    IF i > Len(nodes[node_id].input_nodes) THEN MarkDone(st, node_id)
    ELSE LET dep == nodes[node_id].input_nodes[i]
         IN IF dep \notin st.visited
            THEN LET sub == topologicalSortDFS(nodes, dep, st, depth + 1)
                 IN IF sub.status # "ok" THEN sub
                    ELSE VisitDependencies(nodes, node_id, i + 1, sub, depth)
            ELSE IF dep \in st.rec_stack
            THEN [st EXCEPT !.status = "cycle"]
            ELSE VisitDependencies(nodes, node_id, i + 1, st, depth)

\* ShaderCompositionEngine::topologicalSortDFS; depth counts the nesting of
\* calls: a nesting deeper than the number of nodes can only repeat a node and
\* is reported as "diverged"
topologicalSortDFS(nodes, node_id, st, depth) ==
    IF depth > Cardinality(DOMAIN nodes) + 1 THEN [st EXCEPT !.status = "diverged"]
    ELSE LET marked == MarkVisiting(st, node_id)
         IN IF node_id \notin DOMAIN nodes THEN [marked EXCEPT !.status = "not_found"]
            ELSE VisitDependencies(nodes, node_id, 1, marked, depth)

\* ShaderCompositionEngine::topologicalSort
topologicalSort(nodes, output_node_id) ==
    topologicalSortDFS(nodes, output_node_id,
        [visited |-> {}, rec_stack |-> {}, sorted |-> << >>, status |-> "ok"], 1)

\* analyzeDependencies lines 232-238 for every order in which the unordered
\* node table may be iterated: the outcomes [ok, nodes] of the resolution loop
ResolveOutcomes(nodes) ==
    {ResolveAll(nodes, order) : order \in Orderings(DOMAIN nodes)}

\* analyzeDependencies lines 240-246: the result once the sort t has run
analyzeSorted(resolved, t) ==
    IF t.status # "ok"
    THEN [list |-> << >>, nodes |-> resolved.nodes, status |-> t.status]
    ELSE [list |-> t.sorted, nodes |-> resolved.nodes, status |-> "ok"]

\* ShaderCompositionEngine::analyzeDependencies given the outcome of its
\* resolution loop: the list returned, the node table afterwards and how the
\* analysis ended
analyzeDependencies(resolved, output_node_id) ==
    IF ~resolved.ok
    THEN [list |-> << >>, nodes |-> resolved.nodes, status |-> "unresolved"]
    ELSE analyzeSorted(resolved, topologicalSort(resolved.nodes, output_node_id))

RECURSIVE JoinComma(_)
JoinComma(args) ==
    IF args = << >> THEN << >>
    ELSE IF Len(args) = 1 THEN Head(args)
    ELSE Head(args) \o <<",">> \o JoinComma(Tail(args))

RECURSIVE GraphKeyFrom(_, _, _)
GraphKeyFrom(nodes, chain, i) ==
    IF i > Len(chain) THEN << >>
    ELSE (IF i > 1 THEN <<"_">> ELSE << >>)
         \o (IF chain[i] \in DOMAIN nodes
             THEN nodes[chain[i]].function_name \o <<"(">>
                  \o JoinComma(nodes[chain[i]].arguments) \o <<")">>
             ELSE << >>)
         \o GraphKeyFrom(nodes, chain, i + 1)

\* ShaderCompositionEngine::generateGraphKey
generateGraphKey(nodes, dependency_chain) ==
    S_graph_ \o GraphKeyFrom(nodes, dependency_chain, 1)

\* generateUnifiedShaderCode lines 544-557: one argument of a call in main()
UnifiedArgument(arg) ==
    IF StartsWithAt(arg, 1, S_dollar_shader_)
    THEN SubSeq(arg, 2, Len(arg)) \o S_result
    ELSE arg

\* generateUnifiedShaderCode lines 463-518: what the function block holds
\* for one chain node of the given kind: the function whose file is included
\* (every plugin function of the model is found by findFunction) and the
\* wrapper written for the node's arguments against overloads[0], if any
UnifiedFunctionEntry(table, node, kind) ==
    [node |-> node.node_id, kind |-> kind,
     include |-> IF kind = "PLUGIN_FUNCTION" THEN node.function_name ELSE EmptyStr,
     wrapper |-> IF kind = "PLUGIN_FUNCTION"
                 THEN generateWrapperFunction(table, node.function_name,
                          node.arguments,
                          IF FunctionMetadata(table, node.function_name) = << >>
                          THEN 0 ELSE 1)
                 ELSE NoWrapper]

\* generateUnifiedShaderCode lines 528-575: the statement of main() that
\* assigns one chain node's result: a plugin function is called through
\* <fn>_wrapper, a builtin directly, an unknown function not at all (0.0)
UnifiedMainEntry(node, kind) ==
    [var |-> node.node_id \o S_result, kind |-> kind,
     callee |-> CASE kind = "PLUGIN_FUNCTION" -> node.function_name \o S_wrapper
                  [] kind = "GLSL_BUILTIN" -> node.function_name
                  [] OTHER -> EmptyStr,
     args |-> [j \in 1..Len(node.arguments) |-> UnifiedArgument(node.arguments[j])]]

\* ShaderCompositionEngine::generateUnifiedShaderCode: the function block (one
\* entry per chain node: what is included and which wrapper is defined), the
\* statements of main() in order, and the variable the output colour reads
generateUnifiedShaderCode(table, nodes, dependency_chain) ==
    [functions |->
        [i \in 1..Len(dependency_chain) |->
            UnifiedFunctionEntry(table, nodes[dependency_chain[i]],
                classifyFunction(table, nodes[dependency_chain[i]].function_name))],
     main |->
        [i \in 1..Len(dependency_chain) |->
            UnifiedMainEntry(nodes[dependency_chain[i]],
                classifyFunction(table, nodes[dependency_chain[i]].function_name))],
     final |-> IF dependency_chain = << >> THEN EmptyStr
               ELSE dependency_chain[Len(dependency_chain)] \o S_result]

RECURSIVE Flatten(_)
Flatten(seqs) == IF seqs = << >> THEN << >> ELSE Head(seqs) \o Flatten(Tail(seqs))

\* compileGraph lines 146-211: auto-update flags from every chain node's
\* arguments, by the base-variable test of lines 162-167.  The second test,
\* lines 171-193, adds the variables an expression mentions; the only
\* expressions among GraphArgumentLists are sums of node references, which
\* mention neither time nor st, so it sets no flag here.
GraphAutoUniforms(n, nodes, dependency_chain) ==
    ConfigureAutoUniforms(n,
        Flatten([i \in 1..Len(dependency_chain) |->
                    IF dependency_chain[i] \in DOMAIN nodes
                    THEN nodes[dependency_chain[i]].arguments ELSE << >>]))

\* ShaderNode::setCustomShaderCode
setCustomShaderCode(n, custom_code) ==
    [n EXCEPT !.vertex_shader_code = <<"minimal_vertex_shader">>,
              !.fragment_shader_code = custom_code]

\* compileGraph lines 134-211: the artifact built from the unified code,
\* before it is compiled
NewUnifiedShader(unified_code, nodes, dependency_chain) ==
    GraphAutoUniforms(
        setCustomShaderCode(NewShaderNode(<<"unified_graph">>, << >>), unified_code),
        nodes, dependency_chain)

\* compileGraph lines 213-225: the outcome once the artifact has been compiled
compileGraphFinish(a, graph_key, compiled_shader, fresh, gcache) ==
    IF isReady(compiled_shader) THEN
        [ret |-> fresh, is_new |-> TRUE, node |-> compiled_shader, nodes |-> a.nodes,
         cache |-> With(gcache, graph_key, fresh), list |-> a.list,
         status |-> "compiled",
         steps |-> <<"hasNode", "analyzeDependencies", "cache_lookup", "generate",
                     "compile", "cacheCompiledGraph">>]
    ELSE
        [ret |-> NullObj, is_new |-> FALSE, node |-> NullObj, nodes |-> a.nodes,
         cache |-> gcache, list |-> a.list, status |-> "compile_failed",
         steps |-> <<"hasNode", "analyzeDependencies", "cache_lookup", "generate",
                     "compile">>]

\* a faulty compileGraph: the cache is not consulted, every call compiles
compileGraphNoLookup(a, graph_key, cached, gcache, heap, table, gpu) ==
    compileGraphFinish(a, graph_key,
        compile(NewUnifiedShader(generateUnifiedShaderCode(table, a.nodes, a.list),
                                 a.nodes, a.list), gpu),
        NewObject(heap), gcache)

\* compileGraph lines 112-225: from the cache lookup on
compileGraphKeyed(a, graph_key, cached, gcache, heap, table, gpu) ==
    IF cached # NullObj /\ isReady(heap[cached]) THEN
        [ret |-> cached, is_new |-> FALSE, node |-> NullObj, nodes |-> a.nodes,
         cache |-> gcache, list |-> a.list, status |-> "cached",
         steps |-> <<"hasNode", "analyzeDependencies", "cache_lookup">>]
    ELSE compileGraphFinish(a, graph_key,
             compile(NewUnifiedShader(generateUnifiedShaderCode(table, a.nodes, a.list),
                                      a.nodes, a.list), gpu),
             NewObject(heap), gcache)

\* compileGraph lines 98-225: from the dependency analysis on
compileGraphAnalyzed(a, gcache, heap, table, gpu) ==
    IF a.list = << >> THEN
        [ret |-> NullObj, is_new |-> FALSE, node |-> NullObj, nodes |-> a.nodes,
         cache |-> gcache, list |-> << >>, status |-> a.status,
         steps |-> <<"hasNode", "analyzeDependencies">>]
    ELSE compileGraphKeyed(a, generateGraphKey(a.nodes, a.list),
             getCachedShader(gcache, generateGraphKey(a.nodes, a.list)),
             gcache, heap, table, gpu)

\* ShaderCompositionEngine::compileGraph as a function of what it reads: the
\* artifact returned (NullObj for null), the node table and the cache after it
compileGraph(nodes, gcache, heap, table, resolved, output_node_id, gpu) ==
    IF ~hasNode(nodes, output_node_id) THEN
        [ret |-> NullObj, is_new |-> FALSE, node |-> NullObj, nodes |-> nodes,
         cache |-> gcache, list |-> << >>, status |-> "no_output",
         steps |-> <<"hasNode">>]
    ELSE compileGraphAnalyzed(analyzeDependencies(resolved, output_node_id),
                              gcache, heap, table, gpu)

\* the largest value next_node_id takes in the model
MaxNodeId == 3

\* the number of compiled graphs the graph cache holds in the model
MaxCachedGraphs == 1

G_ref1  == S_dollar_shader_ \o <<"1">>
G_ref2  == S_dollar_shader_ \o <<"2">>
G_sum12 == G_ref1 \o <<"+">> \o G_ref2

G_speed == S_shader_ \o <<"s","p","e","e","d">>

GraphArgumentLists == { <<A_st>>, <<G_ref1>>, <<G_ref2>>, <<G_sum12>>, <<G_speed>> }

\* the (function name, arguments) pairs the host registers
GraphNodeInputs == {<<N_snoise, arguments>> : arguments \in GraphArgumentLists}
                     \cup {<<N_sin, <<A_st>>>>, <<N_nope, <<A_st>>>>}

NodeIdInputs == {generateUniqueNodeId(i) : i \in 1..MaxNodeId}

NoGraphCall == [op |-> "none", out |-> EmptyStr, id |-> EmptyStr, list |-> << >>,
                ret |-> NullObj, status |-> "none", steps |-> << >>]

\* ShaderCompositionEngine::registerNode
RegisterNode(function_name, arguments) ==
    /\ next_node_id <= MaxNodeId
    /\ IF findFunction(loaded_plugins, function_name)
          \/ classifyFunction(loaded_plugins, function_name) = "GLSL_BUILTIN"
       THEN LET node_id == generateUniqueNodeId(next_node_id)
            IN /\ pending_nodes' = With(pending_nodes, node_id,
                                        NewCompositionNode(function_name, arguments, node_id))
               /\ next_node_id' = next_node_id + 1
               /\ issued_ids' = issued_ids \cup {node_id}
               /\ graph_call' = [NoGraphCall EXCEPT !.op = "registerNode",
                                                    !.id = node_id, !.status = "ok"]
       ELSE /\ UNCHANGED <<pending_nodes, next_node_id, issued_ids>>
            /\ graph_call' = [NoGraphCall EXCEPT !.op = "registerNode",
                                                 !.status = "unknown_function"]
    /\ shaders' = [x \in LiveObjects(shader_cache, compiled_cache, {shader_call.ret})
                     |-> shaders[x]]
    /\ UNCHANGED <<host_node, pluginVars, codegen_call, analyzer_call, parser_call, oscVars, shader_cache, shader_call, compiled_cache>>

\* ShaderCompositionEngine::removeNode
RemoveNode(node_id) ==
    /\ IF node_id \in DOMAIN pending_nodes
       THEN /\ pending_nodes' = Without(pending_nodes, node_id)
            /\ graph_call' = [NoGraphCall EXCEPT !.op = "removeNode", !.out = node_id,
                                                 !.status = "ok"]
       ELSE /\ UNCHANGED pending_nodes
            /\ graph_call' = [NoGraphCall EXCEPT !.op = "removeNode", !.out = node_id,
                                                 !.status = "absent"]
    /\ shaders' = [x \in LiveObjects(shader_cache, compiled_cache, {shader_call.ret})
                     |-> shaders[x]]
    /\ UNCHANGED <<host_node, pluginVars, codegen_call, analyzer_call, parser_call, oscVars, shader_cache, shader_call, next_node_id, compiled_cache,
                   issued_ids>>

\* ShaderCompositionEngine::clearAll
ClearAll ==
    /\ pending_nodes' = EmptyMap
    /\ compiled_cache' = EmptyMap
    /\ next_node_id' = 1
    /\ graph_call' = [NoGraphCall EXCEPT !.op = "clearAll", !.status = "ok"]
    /\ shaders' = [x \in LiveObjects(shader_cache, EmptyMap, {shader_call.ret})
                     |-> shaders[x]]
    /\ UNCHANGED <<host_node, pluginVars, codegen_call, analyzer_call, parser_call, oscVars, shader_cache, shader_call, issued_ids>>

\* ShaderCompositionEngine::analyzeDependencies called by the host
AnalyzeDependencies(output_node_id) ==
    /\ \E a \in {analyzeDependencies(resolved, output_node_id) :
                      resolved \in ResolveOutcomes(pending_nodes)} :
            /\ pending_nodes' = a.nodes
            /\ graph_call' = [NoGraphCall EXCEPT !.op = "analyzeDependencies",
                                !.out = output_node_id, !.list = a.list,
                                !.status = a.status]
    /\ shaders' = [x \in LiveObjects(shader_cache, compiled_cache, {shader_call.ret})
                     |-> shaders[x]]
    /\ UNCHANGED <<host_node, pluginVars, codegen_call, analyzer_call, parser_call, oscVars, shader_cache, shader_call, next_node_id, compiled_cache,
                   issued_ids>>

\* ShaderCompositionEngine::compileGraph called by the host
CompileGraph(output_node_id, gpu) ==
    /\ \E o \in {compileGraph(pending_nodes, compiled_cache, shaders, loaded_plugins,
                                resolved, output_node_id, gpu) :
                      resolved \in ResolveOutcomes(pending_nodes)} :
         LET heap == IF o.is_new THEN With(shaders, o.ret, o.node) ELSE shaders
         IN /\ Cardinality(DOMAIN o.cache) <= MaxCachedGraphs
            /\ pending_nodes' = o.nodes
            /\ compiled_cache' = o.cache
            /\ shaders' = [x \in LiveObjects(shader_cache, o.cache,
                                             {o.ret, shader_call.ret}) |-> heap[x]]
            /\ graph_call' = [NoGraphCall EXCEPT !.op = "compileGraph",
                                !.out = output_node_id, !.list = o.list,
                                !.ret = o.ret, !.status = o.status, !.steps = o.steps]
    /\ UNCHANGED <<host_node, pluginVars, codegen_call, analyzer_call, parser_call, oscVars, shader_cache, shader_call, next_node_id, issued_ids>>

----------------------------------------------------------------------------
(* OscHandler and graphicsEngine: the OSC requests                          *)

\* the number of messages the receiver holds in the model
MaxWaiting == 2

\* the number of shader ids ShaderManager issues in the model
MaxShaderId == 2

\* an OSC argument: its type tag and, for a string, its text
StringArg(text) == [type |-> "OFXOSC_TYPE_STRING", text |-> text]

IntArg == [type |-> "OFXOSC_TYPE_INT32", text |-> EmptyStr]

\* OscHandler::parseCreateMessage
parseCreateMessage(osc_message) ==
    LET invalid(format_error) ==
            [is_valid_format |-> FALSE, format_error |-> format_error,
             function_name |-> EmptyStr, raw_arguments |-> EmptyStr]
    IN IF Len(osc_message.args) # 2
       THEN invalid("Expected 2 arguments (function_name, arguments)")
       ELSE IF \/ osc_message.args[1].type # "OFXOSC_TYPE_STRING"
               \/ osc_message.args[2].type # "OFXOSC_TYPE_STRING"
       THEN invalid("All arguments must be strings")
       ELSE [is_valid_format |-> TRUE, format_error |-> "",
             function_name |-> osc_message.args[1].text,
             raw_arguments |-> osc_message.args[2].text]

\* OscHandler::parseConnectMessage
parseConnectMessage(osc_message) ==
    IF Len(osc_message.args) # 1
    THEN [is_valid_format |-> FALSE, shader_id |-> EmptyStr,
          format_error |-> "Expected 1 argument (shader_id)"]
    ELSE IF osc_message.args[1].type # "OFXOSC_TYPE_STRING"
    THEN [is_valid_format |-> FALSE, shader_id |-> EmptyStr,
          format_error |-> "Shader ID must be a string"]
    ELSE [is_valid_format |-> TRUE, shader_id |-> osc_message.args[1].text,
          format_error |-> ""]

\* OscHandler::parseFreeMessage
parseFreeMessage(osc_message) ==
    IF Len(osc_message.args) # 1
    THEN [is_valid_format |-> FALSE, shader_id |-> EmptyStr,
          format_error |-> "Expected 1 argument (shader_id)"]
    ELSE IF osc_message.args[1].type # "OFXOSC_TYPE_STRING"
    THEN [is_valid_format |-> FALSE, shader_id |-> EmptyStr,
          format_error |-> "Shader ID must be a string"]
    ELSE [is_valid_format |-> TRUE, shader_id |-> osc_message.args[1].text,
          format_error |-> ""]

\* OscHandler::update: every waiting message is taken from the receiver and,
\* by its address, parsed into one of the three queues or dropped.  E is the
\* state of the engine an updateOSC call works on
OscHandler_update(E, waiting) ==
    LET of(address) == SelectSeq(waiting, LAMBDA msg : msg.address = address)
    IN [E EXCEPT
          !.create_message_queue =
              @ \o [i \in 1..Len(of("/create")) |-> parseCreateMessage(of("/create")[i])],
          !.connect_message_queue =
              @ \o [i \in 1..Len(of("/connect")) |-> parseConnectMessage(of("/connect")[i])],
          !.free_message_queue =
              @ \o [i \in 1..Len(of("/free")) |-> parseFreeMessage(of("/free")[i])]]

\* OscHandler::sendCreateResponse
sendCreateResponse(E, success, message, shader_id) ==
    [E EXCEPT !.sent = Append(@, [address |-> "/create/response",
                                  status |-> IF success THEN "success" ELSE "error",
                                  message |-> message, shader_id |-> shader_id])]

\* OscHandler::sendConnectResponse
sendConnectResponse(E, success, message) ==
    [E EXCEPT !.sent = Append(@, [address |-> "/connect/response",
                                  status |-> IF success THEN "success" ELSE "error",
                                  message |-> message, shader_id |-> EmptyStr])]

\* OscHandler::sendFreeResponse
sendFreeResponse(E, success, message) ==
    [E EXCEPT !.sent = Append(@, [address |-> "/free/response",
                                  status |-> IF success THEN "success" ELSE "error",
                                  message |-> message, shader_id |-> EmptyStr])]

\* graphicsEngine::parseArguments: the items between commas, blanks and tabs
\* trimmed, blank items dropped
RECURSIVE parseArguments(_)
parseArguments(raw_args) ==
    LET comma == FindChar(raw_args, ",")
        item  == IF comma = 0 THEN raw_args ELSE SubSeq(raw_args, 1, comma - 1)
        solid == { i \in 1..Len(item) : item[i] \notin {" ", "\t"} }
        rest  == IF comma = 0 THEN << >>
                 ELSE parseArguments(SubSeq(raw_args, comma + 1, Len(raw_args)))
    IN IF raw_args = EmptyStr THEN << >>
       ELSE (IF solid = {} THEN << >>
             ELSE <<SubSeq(item, CHOOSE i \in solid : \A j \in solid : i <= j,
                                 CHOOSE i \in solid : \A j \in solid : i >= j)>>)
            \o rest

\* ShaderManager::createShaderWithId after createShader returned o: the
\* engine afterwards and the id returned, empty when the shader is not ready
SM_registerShader(E, o) ==
    IF isReady(o.node)
    THEN [engine |-> [E EXCEPT
                        !.cache = o.cache,
                        !.heap = IF o.is_new THEN With(@, o.ret, o.node) ELSE @,
                        !.next_shader_id = @ + 1,
                        !.sm_active_shaders = With(@, to_string(E.next_shader_id), o.ret)],
          shader_id |-> to_string(E.next_shader_id)]
    ELSE [engine |-> [E EXCEPT
                        !.cache = o.cache,
                        !.heap = IF o.is_new THEN With(@, o.ret, o.node) ELSE @],
          shader_id |-> EmptyStr]

\* ShaderManager::createShaderWithId
SM_createShaderWithId(E, table, function_name, arguments, gpu) ==
    SM_registerShader(E, createShader(E.cache, E.heap, table, function_name,
                                      arguments, gpu))

\* graphicsEngine::createShaderWithId after ShaderManager returned r
GE_registerShader(r) ==
    IF r.shader_id # EmptyStr
    THEN [engine |-> [r.engine EXCEPT
                        !.active_shaders =
                            With(@, r.shader_id,
                                 r.engine.sm_active_shaders[r.shader_id])],
          shader_id |-> r.shader_id]
    ELSE r

\* graphicsEngine::createShaderWithId
GE_createShaderWithId(E, table, function_name, arguments, gpu) ==
    GE_registerShader(SM_createShaderWithId(E, table, function_name, arguments, gpu))

\* graphicsEngine::connectShaderToOutput
connectShaderToOutput(E, shader_id) ==
    IF shader_id \notin DOMAIN E.active_shaders THEN [engine |-> E, ret |-> FALSE]
    ELSE IF ~isReady(E.heap[E.active_shaders[shader_id]])
    THEN [engine |-> E, ret |-> FALSE]
    ELSE [engine |-> [E EXCEPT
                        !.current_shader = E.active_shaders[shader_id],
                        !.heap[E.active_shaders[shader_id]] =
                            setConnectedToOutput(@, TRUE)],
          ret |-> TRUE]

\* a faulty free: the artifact's program is unloaded with the id
freeShaderUnloading(E, shader_id) ==
    IF shader_id \notin DOMAIN E.active_shaders THEN [engine |-> E, ret |-> FALSE]
    ELSE [engine |-> [E EXCEPT
                        !.heap[E.active_shaders[shader_id]].loaded = FALSE,
                        !.active_shaders = Without(@, shader_id),
                        !.sm_active_shaders = Without(@, shader_id)],
          ret |-> TRUE]

\* a faulty free: every id counts as freed
freeShaderAlways(E, shader_id) == [engine |-> E, ret |-> TRUE]

\* graphicsEngine::freeShader
freeShader(E, shader_id) ==
    IF shader_id \notin DOMAIN E.active_shaders THEN [engine |-> E, ret |-> FALSE]
    ELSE [engine |-> [E EXCEPT
                        !.current_shader =
                            IF @ # NullObj /\ @ = E.active_shaders[shader_id]
                            THEN NullObj ELSE @,
                        !.active_shaders = Without(@, shader_id),
                        !.sm_active_shaders = Without(@, shader_id)],
          ret |-> shader_id \in DOMAIN E.sm_active_shaders]

\* the response of processCreateMessages to a well-formed request, made being
\* what createShaderWithId returned
answerCreate(made) ==
    IF made.shader_id # EmptyStr
    THEN sendCreateResponse([made.engine EXCEPT !.returned = @ \cup {made.shader_id}],
                            TRUE, "Shader created successfully", made.shader_id)
    ELSE sendCreateResponse(made.engine, FALSE, "Failed to create shader", EmptyStr)

\* one round of the loop of processCreateMessages, msg being the request
\* taken from the queue
processCreateMessage(E, msg, table, gpu) ==
    IF ~msg.is_valid_format
    THEN sendCreateResponse(E, FALSE, msg.format_error, EmptyStr)
    ELSE answerCreate(GE_createShaderWithId(E, table, msg.function_name,
                                            parseArguments(msg.raw_arguments), gpu))

\* graphicsEngine::processCreateMessages; gpus are, request by request, the
\* GPU compiler's outcome for the shader the request creates
RECURSIVE processCreateMessages(_, _, _)
processCreateMessages(E, table, gpus) ==
    IF E.create_message_queue = << >> THEN E
    ELSE processCreateMessages(
             processCreateMessage([E EXCEPT !.create_message_queue = Tail(@)],
                                  Head(E.create_message_queue), table,
                                  Head(gpus)),
             table, Tail(gpus))

\* the response of processConnectMessages to a well-formed request, done being
\* what connectShaderToOutput returned
answerConnect(done) ==
    IF done.ret
    THEN sendConnectResponse(done.engine, TRUE, "Shader connected to output")
    ELSE sendConnectResponse(done.engine, FALSE, "Failed to connect shader")

\* one round of the loop of processConnectMessages
processConnectMessage(E, msg) ==
    IF ~msg.is_valid_format
    THEN sendConnectResponse(E, FALSE, msg.format_error)
    ELSE answerConnect(connectShaderToOutput(E, msg.shader_id))

\* graphicsEngine::processConnectMessages
RECURSIVE processConnectMessages(_)
processConnectMessages(E) ==
    IF E.connect_message_queue = << >> THEN E
    ELSE processConnectMessages(
             processConnectMessage([E EXCEPT !.connect_message_queue = Tail(@)],
                                   Head(E.connect_message_queue)))

\* the response of processFreeMessages to a well-formed request, done being
\* what freeShader returned
answerFree(done, shader_id) ==
    IF done.ret
    THEN sendFreeResponse([done.engine EXCEPT !.freed = @ \cup {shader_id}],
                          TRUE, "Shader freed successfully")
    ELSE sendFreeResponse(done.engine, FALSE, "Failed to free shader")

\* one round of the loop of processFreeMessages
processFreeMessage(E, msg) ==
    IF ~msg.is_valid_format
    THEN sendFreeResponse(E, FALSE, msg.format_error)
    ELSE answerFree(freeShader(E, msg.shader_id), msg.shader_id)

\* a faulty loop: only the first waiting /free request is handled
processFreeMessagesOnce(E) ==
    IF E.free_message_queue = << >> THEN E
    ELSE processFreeMessage([E EXCEPT !.free_message_queue = Tail(@)],
                            Head(E.free_message_queue))

\* graphicsEngine::processFreeMessages
RECURSIVE processFreeMessages(_)
processFreeMessages(E) ==
    IF E.free_message_queue = << >> THEN E
    ELSE processFreeMessages(
             processFreeMessage([E EXCEPT !.free_message_queue = Tail(@)],
                                Head(E.free_message_queue)))

\* a faulty tick: the free requests are worked off before the connect requests
updateOSCFreeFirst(E, table, waiting, gpus) ==
    processConnectMessages(
        processFreeMessages(
            processCreateMessages(OscHandler_update(E, waiting), table, gpus)))

\* graphicsEngine::updateOSC with a handler: the engine after the receiver is
\* drained and the three queues are worked off
updateOSC(E, table, waiting, gpus) ==
    processFreeMessages(
        processConnectMessages(
            processCreateMessages(OscHandler_update(E, waiting), table, gpus)))

NoOscCall == [op |-> "none", waiting |-> << >>, sent |-> << >>]

\* the /create, /connect and /free requests and other messages clients send
OscMessages ==
    { [address |-> "/create", args |-> <<StringArg(N_snoise), StringArg(A_st)>>],
      [address |-> "/create", args |-> <<StringArg(N_snoise)>>],
      [address |-> "/connect", args |-> <<StringArg(<<"0">>)>>],
      [address |-> "/connect", args |-> << >>],
      [address |-> "/free", args |-> <<StringArg(<<"0">>)>>],
      [address |-> "/free", args |-> <<StringArg(<<"1">>)>>],
      [address |-> "/free", args |-> <<IntArg>>],
      [address |-> "/status", args |-> << >>] }

\* graphicsEngine::initializeOSC: a new handler with an empty receiver
InitializeOSC ==
    /\ osc_handler' = TRUE
    /\ receiver' = << >>
    /\ create_message_queue' = << >>
    /\ connect_message_queue' = << >>
    /\ free_message_queue' = << >>
    /\ osc_call' = [op |-> "initializeOSC", waiting |-> << >>, sent |-> << >>]
    /\ UNCHANGED <<host_node, pluginVars, shaderVars, graphVars, codegen_call, analyzer_call,
                   parser_call, active_shaders, sm_active_shaders, next_shader_id,
                   current_shader, returned_shader_ids, freed_shader_ids>>

\* graphicsEngine::shutdownOSC: the handler and what it holds are destroyed
ShutdownOSC ==
    /\ osc_handler
    /\ osc_handler' = FALSE
    /\ receiver' = << >>
    /\ create_message_queue' = << >>
    /\ connect_message_queue' = << >>
    /\ free_message_queue' = << >>
    /\ osc_call' = [op |-> "shutdownOSC", waiting |-> << >>, sent |-> << >>]
    /\ UNCHANGED <<host_node, pluginVars, shaderVars, graphVars, codegen_call, analyzer_call,
                   parser_call, active_shaders, sm_active_shaders, next_shader_id,
                   current_shader, returned_shader_ids, freed_shader_ids>>

\* a client's message arrives at the receiver's socket
ReceiveMessage(osc_message) ==
    /\ osc_handler
    /\ Len(receiver) < MaxWaiting
    /\ receiver' = Append(receiver, osc_message)
    /\ UNCHANGED <<host_node, pluginVars, shaderVars, graphVars, codegen_call, analyzer_call,
                   parser_call, osc_handler, create_message_queue,
                   connect_message_queue, free_message_queue, active_shaders,
                   sm_active_shaders, next_shader_id, current_shader, osc_call,
                   returned_shader_ids, freed_shader_ids>>

\* the number of /create messages among the waiting ones
CreateRequests(waiting) ==
    Len(SelectSeq(waiting, LAMBDA msg : msg.address = "/create"))

\* graphicsEngine::updateOSC, called once per frame; gpus are the GPU
\* compiler's outcomes for the /create requests it handles
UpdateOSC(gpus) ==
    IF ~osc_handler THEN
        /\ osc_call' = [op |-> "updateOSC", waiting |-> receiver, sent |-> << >>]
        /\ UNCHANGED <<host_node, pluginVars, shaderVars, graphVars, codegen_call, analyzer_call,
                       parser_call, osc_handler, receiver, create_message_queue,
                       connect_message_queue, free_message_queue, active_shaders,
                       sm_active_shaders, next_shader_id, current_shader,
                       returned_shader_ids, freed_shader_ids>>
    ELSE
        /\ next_shader_id + CreateRequests(receiver) <= MaxShaderId
        /\ \E E \in {updateOSC([cache |-> shader_cache, heap |-> shaders,
                                sm_active_shaders |-> sm_active_shaders,
                                next_shader_id |-> next_shader_id,
                                active_shaders |-> active_shaders,
                                current_shader |-> current_shader,
                                create_message_queue |-> create_message_queue,
                                connect_message_queue |-> connect_message_queue,
                                free_message_queue |-> free_message_queue,
                                sent |-> << >>,
                                returned |-> returned_shader_ids,
                                freed |-> freed_shader_ids],
                               loaded_plugins, receiver, gpus)} :
              LET live == LiveObjects(E.cache, compiled_cache,
                                      Range(E.active_shaders)
                                      \cup Range(E.sm_active_shaders)
                                      \cup {E.current_shader, shader_call.ret,
                                            graph_call.ret})
              IN
              /\ receiver' = << >>
              /\ create_message_queue' = E.create_message_queue
              /\ connect_message_queue' = E.connect_message_queue
              /\ free_message_queue' = E.free_message_queue
              /\ shader_cache' = E.cache
              /\ shaders' = [x \in live |-> E.heap[x]]
              /\ sm_active_shaders' = E.sm_active_shaders
              /\ next_shader_id' = E.next_shader_id
              /\ active_shaders' = E.active_shaders
              /\ current_shader' = E.current_shader
              /\ osc_call' = [op |-> "updateOSC", waiting |-> receiver,
                              sent |-> E.sent]
              /\ returned_shader_ids' = E.returned
              /\ freed_shader_ids' = E.freed
        /\ UNCHANGED <<host_node, pluginVars, graphVars, codegen_call, analyzer_call,
                       parser_call, osc_handler, shader_call>>

----------------------------------------------------------------------------
(* Specifications                                                          *)

NoPluginCall == [op |-> "none", path |-> "", alias |-> "", ret |-> FALSE,
                 why |-> "none", events |-> << >>]

NoShaderCall == [op |-> "none", function_name |-> EmptyStr, arguments |-> << >>,
                 ret |-> NullObj, steps |-> << >>]

NoCodegenCall == [op |-> "none", function_name |-> EmptyStr, arguments |-> << >>,
                  code |-> [uniforms |-> {}, glsl_function |-> << >>,
                            wrapper_functions |-> NoWrapper,
                            main |-> [temp_vars |-> {}, func_to_call |-> EmptyStr,
                                      call_args |-> << >>, return_type |-> ""]]]

\* function names and argument lists offered to the code generator
CodegenFunctionNames == {N_snoise, N_cnoise, N_random, N_nope}

CodegenArgumentLists ==
    LET A_st_y == <<"s","t",".","y">>
        A_fc_xyz == A_gl_FragCoord \o <<".","x","y","z">>
        A_st_times_2 == <<"s","t","*","2",".","0">>
    IN { <<A_st>>, <<A_time>>, <<A_fc_xyz>>, <<A_st_times_2>>,
         <<A_st, A_time>>, <<A_st_x, A_half>>, <<A_st, A_time, A_half>>,
         <<A_st_x, A_st_y, A_time, A_half>> }

\* ShaderCodeGenerator::generateFragmentShader called with the code of the
\* function's file
GenerateFragmentShader(function_name, arguments) ==
    /\ codegen_call' =
          [op |-> "generateFragmentShader", function_name |-> function_name,
           arguments |-> arguments,
           code |-> generateFragmentShader(loaded_plugins,
                        <<"source of", function_name>>, function_name, arguments)]
    /\ UNCHANGED <<host_node, pluginVars, shaderVars, graphVars, analyzer_call, parser_call, oscVars>>

NoAnalyzerCall == [op |-> "none", main_function |-> EmptyStr,
                   raw_arguments |-> EmptyStr,
                   result |-> [is_valid |-> FALSE, error_message |-> NoMessage,
                               final_arguments |-> << >>,
                               classified_functions |-> {},
                               required_plugin_functions |-> {},
                               used_builtin_functions |-> {}]]

\* main functions and raw argument texts of /create requests
AnalyzerMainFunctions == {N_snoise, N_sin, N_nope}

AnalyzerRawArguments ==
    { <<"s","t",",","i","n","t","(","s","t",".","x","*","1","0",".","0",")","*","r","a","n","d","o","m","(","t","i","m","e",")",",","t","i","m","e","*","0",".","5">>,
      <<"m","i","x","(","s","t",",","t","i","m","e",")",",","t","i","m","e">>,
      <<"s","i","n","(","c","o","s","(","n","o","p","e","(","t","i","m","e",")",")",")">>,
      <<" ","s","t"," ",","," ","t","i","m","e"," ">>,
      <<"s","t",",",",","t","i","m","e">>,
      << >>,
      <<"m","a","x","(","s","t",","," ","m","i","x","(","t","i","m","e",",","t","i","m","e",")",")",",","s","n","o","i","s","e"," ","(","s","t",")">>,
      <<"n","o","p","e","(","t","i","m","e">>,
      <<"s","t",")",",","t","i","m","e">> }

\* FunctionDependencyAnalyzer::analyzeCreateMessage called by the host
AnalyzeCreateMessage(main_function, raw_arguments) ==
    /\ analyzer_call' =
          [op |-> "analyzeCreateMessage", main_function |-> main_function,
           raw_arguments |-> raw_arguments,
           result |-> analyzeCreateMessage(loaded_plugins, main_function,
                                           raw_arguments)]
    /\ UNCHANGED <<host_node, pluginVars, shaderVars, graphVars, codegen_call, parser_call, oscVars>>

NoParserCall == [op |-> "none", expr |-> EmptyStr,
                 result |-> [glsl_code |-> EmptyStr, dependencies |-> {},
                             is_simple_var |-> FALSE, is_constant |-> FALSE,
                             type |-> "float"]]

\* argument expressions of requests
ParserExpressions ==
    { <<"s","i","n","(","t","i","m","e","*","1","0",".","0",")","+","c","o","s","(","t","i","m","e","*","5",".","0",")">>,
      <<"c","o","n","t","r","a","s","t","(","s","t","*","2",".","0",")">>,
      <<"s","t",".","x","*","0",".","5","+","t","i","m","e">>,
      <<"m","a","x","(","s","t",".","x",","," ","0",".","5",")","*","t","i","m","e">>,
      <<"t","i","m","e","*","0",".","5","+","t","i","m","e">>,
      <<"s","i","n"," ","(","s","t",".","y",")","+","r","e","s","o","l","u","t","i","o","n",".","x">>,
      <<"t","i","m","e">>,
      <<"0",".","5">> }

\* ExpressionParser::parseExpression called by the host
ParseExpression(expr) ==
    /\ parser_call' = [op |-> "parseExpression", expr |-> expr,
                       result |-> parseExpression(expr)]
    /\ UNCHANGED <<host_node, pluginVars, shaderVars, graphVars, codegen_call, analyzer_call, oscVars>>

\* graphicsEngine::parseArguments called on the raw_arguments of a /create
\* request
ParseArguments(raw_args) ==
    /\ parser_call' = [op |-> "parseArguments", expr |-> raw_args,
                       result |-> parseArguments(raw_args)]
    /\ UNCHANGED <<host_node, pluginVars, shaderVars, graphVars, codegen_call, analyzer_call, oscVars>>

\* the shader source texts a host sets on a node
NodeCodeInputs == {NoCode, <<"source">>}

NodeErrorInputs == {<<"Runtime error">>}

\* ShaderNode::setShaderCode called by the host
SetShaderCode(vertex, fragment) ==
    /\ host_node' = [host_node EXCEPT !.vertex_shader_code = vertex,
                                          !.fragment_shader_code = fragment]
    /\ UNCHANGED <<pluginVars, shaderVars, graphVars, codegen_call, analyzer_call,
                   parser_call, oscVars>>

\* ShaderNode::compile called by the host
Compile(gpu) ==
    /\ host_node' = compile(host_node, gpu)
    /\ UNCHANGED <<pluginVars, shaderVars, graphVars, codegen_call, analyzer_call,
                   parser_call, oscVars>>

\* ShaderNode::setError called by the host
SetError(error) ==
    /\ host_node' = setError(host_node, error)
    /\ UNCHANGED <<pluginVars, shaderVars, graphVars, codegen_call, analyzer_call,
                   parser_call, oscVars>>

\* ShaderNode::setState called by the host
SetState(state) ==
    /\ host_node' = setState(host_node, state)
    /\ UNCHANGED <<pluginVars, shaderVars, graphVars, codegen_call, analyzer_call,
                   parser_call, oscVars>>

\* ShaderNode::setConnectedToOutput called by the host
SetConnectedToOutput(connected) ==
    /\ host_node' = setConnectedToOutput(host_node, connected)
    /\ UNCHANGED <<pluginVars, shaderVars, graphVars, codegen_call, analyzer_call,
                   parser_call, oscVars>>

\* the state after the managers are constructed
Init ==
    /\ loaded_plugins = EmptyMap
    /\ lib_refs = [p \in LibraryPaths |-> 0]
    /\ instances = EmptyMap
    /\ plugin_call = NoPluginCall
    /\ shaders = EmptyMap
    /\ shader_cache = EmptyMap
    /\ shader_call = NoShaderCall
    /\ pending_nodes = EmptyMap
    /\ next_node_id = 1
    /\ compiled_cache = EmptyMap
    /\ graph_call = NoGraphCall
    /\ issued_ids = {}
    /\ codegen_call = NoCodegenCall
    /\ analyzer_call = NoAnalyzerCall
    /\ parser_call = NoParserCall
    /\ osc_handler = FALSE
    /\ receiver = << >>
    /\ create_message_queue = << >>
    /\ connect_message_queue = << >>
    /\ free_message_queue = << >>
    /\ active_shaders = EmptyMap
    /\ sm_active_shaders = EmptyMap
    /\ next_shader_id = 0
    /\ current_shader = NullObj
    /\ osc_call = NoOscCall
    /\ returned_shader_ids = {}
    /\ freed_shader_ids = {}
    /\ host_node = NewShaderNode(N_snoise, <<A_st>>)

UnloadAliases == {"a", "lygia", "old"}

\* the plugin registry on its own
NextPlugin ==
    \/ \E plugin_path \in LibraryPaths, alias \in AliasInputs : LoadPlugin(plugin_path, alias)
    \/ \E alias \in UnloadAliases : UnloadPlugin(alias)
    \/ UnloadAllPlugins

SpecPlugin == Init /\ [][NextPlugin]_vars

\* the shader manager over a plugin registry that loads and unloads
NextShader ==
    \/ \E plugin_path \in {"plugins/lygia/libLygia.so", "plugins/old/libOld.so"} :
          LoadPlugin(plugin_path, "")
    \/ UnloadAllPlugins
    \/ \E function_name \in ShaderFunctionNames, arguments \in ShaderArgumentLists,
          gpu \in GpuOutcomes : CreateShader(function_name, arguments, gpu)
    \/ ClearCache

SpecShader == Init /\ [][NextShader]_vars

\* the composition engine over a plugin registry that loads one plugin
NextGraph ==
    \/ LoadPlugin("plugins/lygia/libLygia.so", "")
    \/ \E input \in GraphNodeInputs : RegisterNode(input[1], input[2])
    \/ \E node_id \in NodeIdInputs : RemoveNode(node_id)
    \/ ClearAll
    \/ \E node_id \in NodeIdInputs : AnalyzeDependencies(node_id)
    \/ \E node_id \in NodeIdInputs, gpu \in GpuOutcomes : CompileGraph(node_id, gpu)

SpecGraph == Init /\ [][NextGraph]_vars

\* the code generator over a plugin registry that loads and unloads
NextCodegen ==
    \/ \E plugin_path \in {"plugins/lygia/libLygia.so", "plugins/old/libOld.so"} :
          LoadPlugin(plugin_path, "")
    \/ UnloadAllPlugins
    \/ \E function_name \in CodegenFunctionNames, arguments \in CodegenArgumentLists :
          GenerateFragmentShader(function_name, arguments)

SpecCodegen == Init /\ [][NextCodegen]_vars

\* the dependency analyzer and the expression parser over a plugin registry
\* that loads and unloads
NextAnalyzer ==
    \/ LoadPlugin("plugins/lygia/libLygia.so", "")
    \/ UnloadAllPlugins
    \/ \E main_function \in AnalyzerMainFunctions,
          raw_arguments \in AnalyzerRawArguments :
          AnalyzeCreateMessage(main_function, raw_arguments)
    \/ \E expr \in ParserExpressions : ParseExpression(expr)
    \/ \E raw_args \in AnalyzerRawArguments : ParseArguments(raw_args)

SpecAnalyzer == Init /\ [][NextAnalyzer]_vars

\* the engine answering OSC requests, one updateOSC per frame
NextOsc ==
    \/ LoadPlugin("plugins/lygia/libLygia.so", "")
    \/ InitializeOSC
    \/ ShutdownOSC
    \/ \E osc_message \in OscMessages : ReceiveMessage(osc_message)
    \/ \E gpus \in [1..CreateRequests(receiver) -> GpuOutcomes] : UpdateOSC(gpus)
    \/ ClearCache

SpecOsc == Init /\ [][NextOsc]_vars

\* one ShaderNode and the operations a host calls on it
NextNode ==
    \/ \E vertex \in NodeCodeInputs, fragment \in NodeCodeInputs :
          SetShaderCode(vertex, fragment)
    \/ \E gpu \in GpuOutcomes : Compile(gpu)
    \/ \E error \in NodeErrorInputs : SetError(error)
    \/ \E state \in ShaderNodeStates : SetState(state)
    \/ \E connected \in BOOLEAN : SetConnectedToOutput(connected)

SpecNode == Init /\ [][NextNode]_vars

----------------------------------------------------------------------------
(* Steps of one operation, recognised from the call record of the next     *)
(* state                                                                   *)

LoadPluginStep ==
    /\ plugin_call'.op = "loadPlugin"
    /\ LoadPlugin(plugin_call'.path, plugin_call'.alias)

CreateShaderStep ==
    /\ shader_call'.op = "createShader"
    /\ \E gpu \in GpuOutcomes :
          CreateShader(shader_call'.function_name, shader_call'.arguments, gpu)

AnalyzeDependenciesStep ==
    /\ graph_call'.op = "analyzeDependencies"
    /\ AnalyzeDependencies(graph_call'.out)

CompileGraphStep ==
    /\ graph_call'.op = "compileGraph"
    /\ \E gpu \in GpuOutcomes : CompileGraph(graph_call'.out, gpu)

----------------------------------------------------------------------------
(* The reference relation the composition graph is described by: every     *)
(* `$shader_<id>` occurring anywhere in a node's arguments                 *)

DollarRefs(arg) ==
    {SubSeq(arg, i + 1, WordRunEnd(arg, i + 8)) :
        i \in {k \in 1..Len(arg) : /\ StartsWithAt(arg, k, S_dollar_shader_)
                                   /\ WordRunEnd(arg, k + 8) >= k + 8}}

NodeRefs(nodes, id) ==
    UNION {DollarRefs(nodes[id].arguments[j]) : j \in 1..Len(nodes[id].arguments)}

RECURSIVE RefClosure(_, _)
RefClosure(nodes, S) ==
    LET grown == S \cup UNION {NodeRefs(nodes, id) \cap DOMAIN nodes : id \in S}
    IN IF grown = S THEN S ELSE RefClosure(nodes, grown)

ReachableFrom(nodes, out) == RefClosure(nodes, {out})

OnCycle(nodes, id) == id \in RefClosure(nodes, NodeRefs(nodes, id) \cap DOMAIN nodes)

CycleReachable(nodes, out) == \E id \in ReachableFrom(nodes, out) : OnCycle(nodes, id)

AllReferencesResolve(nodes) == \A id \in DOMAIN nodes : NodeRefs(nodes, id) \subseteq DOMAIN nodes

Acyclic(nodes) == \A id \in DOMAIN nodes : ~OnCycle(nodes, id)

----------------------------------------------------------------------------
(* Claims                                                                  *)

\* C1: when a reference cycle (a self-reference included) is reachable from
\* the requested output, compileGraph returns null and leaves the compiled
\* cache unchanged, and analyzeDependencies returns the empty list.
C1_CycleFailsCompilation ==
    [][ /\ ( /\ CompileGraphStep
             /\ graph_call'.out \in DOMAIN pending_nodes
             /\ CycleReachable(pending_nodes, graph_call'.out) )
           => /\ graph_call'.ret = NullObj
              /\ compiled_cache' = compiled_cache
        /\ ( /\ AnalyzeDependenciesStep
             /\ graph_call'.out \in DOMAIN pending_nodes
             /\ CycleReachable(pending_nodes, graph_call'.out) )
           => graph_call'.list = << >> ]_vars

\* C2: for an acyclic graph whose references all resolve,
\* analyzeDependencies(out) returns exactly the nodes reachable from out
\* through `$shader_<id>` references, each once, out last, and every node
\* referenced anywhere in a node's arguments before that node.
C2_AnalysisIsTopologicalOrder ==
    [][ ( /\ AnalyzeDependenciesStep
          /\ graph_call'.out \in DOMAIN pending_nodes
          /\ AllReferencesResolve(pending_nodes)
          /\ Acyclic(pending_nodes) )
        => /\ {graph_call'.list[i] : i \in 1..Len(graph_call'.list)}
                 = ReachableFrom(pending_nodes, graph_call'.out)
           /\ \A i, j \in 1..Len(graph_call'.list) :
                 i # j => graph_call'.list[i] # graph_call'.list[j]
           /\ graph_call'.list # << >>
           /\ graph_call'.list[Len(graph_call'.list)] = graph_call'.out
           /\ \A i \in 1..Len(graph_call'.list) :
                 \A r \in NodeRefs(pending_nodes, graph_call'.list[i]) :
                    \E j \in 1..(i-1) : graph_call'.list[j] = r ]_vars

\* C3: once createShader(name, args) has returned a ready artifact, every
\* later createShader(name, args) before the next clearCache returns that
\* same artifact, and only the validation and the cache lookup run.  In
\* steps: a ready artifact returned by createShader is in the cache under the
\* call's key; a cache entry and its artifact stay as they are over every
\* step but clearCache; createShader on a cached key returns the entry.
C3_RepeatServedFromCache ==
    [][ /\ ( /\ shader_call'.op = "createShader"
             /\ shaders'[shader_call'.ret].is_compiled
             /\ ~shaders'[shader_call'.ret].has_error )
           => LET key == generateCacheKey(shader_call'.function_name,
                                          shader_call'.arguments)
              IN key \in DOMAIN shader_cache' /\ shader_cache'[key] = shader_call'.ret
        /\ ClearCache
           \/ \A k \in DOMAIN shader_cache :
                 /\ k \in DOMAIN shader_cache'
                 /\ shader_cache'[k] = shader_cache[k]
                 /\ shaders'[shader_cache[k]] = shaders[shader_cache[k]]
        /\ ( /\ CreateShaderStep
             /\ generateCacheKey(shader_call'.function_name, shader_call'.arguments)
                   \in DOMAIN shader_cache )
           => /\ shader_call'.ret =
                    shader_cache[generateCacheKey(shader_call'.function_name,
                                                  shader_call'.arguments)]
              /\ shader_call'.steps = <<"validate", "cache_lookup">> ]_vars

\* C3 witness: a createShader call was answered from the cache
C3_Witness ==
    /\ shader_call.op = "createShader"
    /\ shader_call.steps = <<"validate", "cache_lookup">>
    /\ generateCacheKey(shader_call.function_name, shader_call.arguments)
          \in DOMAIN shader_cache
    /\ shader_cache[generateCacheKey(shader_call.function_name, shader_call.arguments)]
          = shader_call.ret

\* C4: createShader always returns an artifact (no null, no exception reaches
\* the caller), and the artifact is either ready or carries the error flag
\* with a non-empty message.
C4_AlwaysAnArtifact ==
    shader_call.op = "createShader"
    => /\ shader_call.ret # NullObj
       /\ shader_call.ret \in DOMAIN shaders
       /\ \/ isReady(shaders[shader_call.ret])
          \/ /\ shaders[shader_call.ret].has_error
             /\ shaders[shader_call.ret].error_message # NoMessage

\* C4 witness: the GPU compiler threw and createShader still returned an
\* artifact, which carries the error
C4_Witness ==
    /\ shader_call.op = "createShader"
    /\ shader_call.ret \in DOMAIN shaders
    /\ shaders[shader_call.ret].error_message = <<"Exception during shader compilation">>

\* C5: an artifact that carries the error flag is in lifecycle state ERROR
\* (never still CREATED or COMPILING).
C5_ErrorFlagMeansErrorState ==
    \A x \in DOMAIN shaders :
        shaders[x].has_error => getState(shaders[x]) = "ERROR"

\* C6: every cached artifact was compiled successfully and is entered by the
\* createShader call that compiled it; a createShader call that returns an
\* error artifact leaves the cache as it was.
C6_CacheOnlyAfterSuccess ==
    [][ /\ \A k \in DOMAIN shader_cache' :
              /\ shaders'[shader_cache'[k]].is_compiled
              /\ ~shaders'[shader_cache'[k]].has_error
        /\ (CreateShaderStep /\ shaders'[shader_call'.ret].has_error)
           => shader_cache' = shader_cache
        /\ CreateShaderStep
           => \A k \in DOMAIN shader_cache' :
                 (k \notin DOMAIN shader_cache \/ shader_cache'[k] # shader_cache[k])
                 => /\ k = generateCacheKey(shader_call'.function_name,
                                            shader_call'.arguments)
                    /\ shader_cache'[k] = shader_call'.ret
                    /\ shader_call'.steps =
                          <<"validate", "cache_lookup", "findFunction",
                            "loadGLSLFunction", "generate", "compile", "cacheShader">> ]_vars

\* C6 witness: a compile failure with a populated cache
C6_Witness ==
    /\ shader_call.op = "createShader"
    /\ shader_call.steps = <<"validate", "cache_lookup", "findFunction",
                             "loadGLSLFunction", "generate", "compile">>
    /\ shaders[shader_call.ret].has_error
    /\ shader_cache # EmptyMap

\* C7: when some argument fails isValidSwizzle, createShader returns an error
\* artifact with the message of the first invalid argument, only the
\* validation has run, and the cache is unchanged.
C7_InvalidSwizzleFailsFirst ==
    [][ \A i \in 1..Len(shader_call'.arguments) :
          ( /\ ~isValidSwizzle(shader_call'.arguments[i]).valid
            /\ \A j \in 1..(i-1) : isValidSwizzle(shader_call'.arguments[j]).valid
            /\ CreateShaderStep )
          => /\ shader_call'.steps = <<"validate">>
             /\ shaders'[shader_call'.ret].has_error
             /\ shaders'[shader_call'.ret].error_message =
                   isValidSwizzle(shader_call'.arguments[i]).errorMessage
             /\ shader_cache' = shader_cache ]_vars

\* C7 witness: a call with two invalid arguments after a valid one was
\* rejected while the cache held an entry
C7_Witness ==
    /\ shader_call.op = "createShader"
    /\ shader_call.arguments = <<A_time, A_u_x, A_st_q>>
    /\ shader_call.steps = <<"validate">>
    /\ shaders[shader_call.ret].error_message = <<"Unknown variable", <<"u">> >>
    /\ shader_cache # EmptyMap

C8_RequestedAlias ==
    IF plugin_call'.alias = "" THEN Library(plugin_call'.path).name
    ELSE plugin_call'.alias

\* C8: loadPlugin under an alias that is already registered returns false and
\* leaves the plugin table as it was: the alias maps to the same, still live
\* instance and every function lookup answers as before.
C8_DuplicateAliasRejected ==
    [][ (LoadPluginStep /\ C8_RequestedAlias \in DOMAIN loaded_plugins)
        => /\ plugin_call'.ret = FALSE
           /\ loaded_plugins' = loaded_plugins
           /\ loaded_plugins[C8_RequestedAlias].interface \in DOMAIN instances'
           /\ instances'[loaded_plugins[C8_RequestedAlias].interface]
                 = instances[loaded_plugins[C8_RequestedAlias].interface]
           /\ \A f \in {N_snoise, N_random, N_sin, N_cnoise, N_nope} :
                 findFunction(loaded_plugins', f) = findFunction(loaded_plugins, f) ]_vars

\* C8 witness: a load that got as far as the duplicate-alias test and was
\* rejected there
C8_Witness ==
    /\ plugin_call.op = "loadPlugin"
    /\ plugin_call.why = "duplicate"
    /\ ~plugin_call.ret
    /\ (IF plugin_call.alias = "" THEN Library(plugin_call.path).name
        ELSE plugin_call.alias) \in DOMAIN loaded_plugins

\* C9: whenever loadPlugin returns false the plugin table is unchanged, no
\* plugin instance created by the call is left alive and the library's handle
\* has been closed again.
C9_FailedLoadLeavesNothing ==
    [][ (LoadPluginStep /\ ~plugin_call'.ret)
        => /\ loaded_plugins' = loaded_plugins
           /\ instances' = instances
           /\ lib_refs' = lib_refs ]_vars

\* C10: every registered plugin comes from a library whose exported ABI
\* version was read and equals PLUGIN_ABI_VERSION.
C10_RegisteredAbiMatches ==
    \A a \in DOMAIN loaded_plugins :
        /\ Library(loaded_plugins[a].handle).has_abi
        /\ Library(loaded_plugins[a].handle).abi = PLUGIN_ABI_VERSION

UnloadStep ==
    \/ /\ plugin_call'.op = "unloadPlugin"
       /\ UnloadPlugin(plugin_call'.alias)
    \/ /\ plugin_call'.op = "unloadAllPlugins"
       /\ UnloadAllPlugins

\* C11: every registration removed by unloadPlugin or unloadAllPlugins (the
\* manager's destructor runs unloadAllPlugins) has its instance destroyed
\* through destroyPlugin before its library is closed, and no library is
\* closed without the instance having been destroyed just before.
C11_UnloadDestroysThenCloses ==
    [][ UnloadStep
        => /\ \A a \in DOMAIN loaded_plugins \ DOMAIN loaded_plugins' :
                 loaded_plugins[a].interface \notin DOMAIN instances'
           /\ \A i \in 1..Len(plugin_call'.events) :
                 plugin_call'.events[i] = "dlclose"
                 => i > 1 /\ plugin_call'.events[i-1] = "destroyPlugin" ]_vars

RegisterNodeStep ==
    /\ graph_call'.op = "registerNode"
    /\ \E input \in GraphNodeInputs : RegisterNode(input[1], input[2])

\* C12: every id returned by a successful registerNode differs from every id
\* returned earlier, over any interleaving with removeNode, clearAll,
\* analyzeDependencies and compileGraph.
C12_NodeIdsNeverReused ==
    [][ (RegisterNodeStep /\ graph_call'.id # EmptyStr)
        => graph_call'.id \notin issued_ids ]_vars

\* C13: registerNode creates no shader artifact and leaves the compiled-graph
\* cache (and everything outside the engine) alone; on success it adds exactly
\* one node, under the returned id, to the node table; for a function that no
\* loaded plugin offers and that is no GLSL built-in it returns the empty id
\* and leaves the node table unchanged.
C13_RegisterNodeOnlyAddsNode ==
    [][ \A input \in GraphNodeInputs :
          (graph_call'.op = "registerNode" /\ RegisterNode(input[1], input[2]))
          => /\ compiled_cache' = compiled_cache
             /\ shader_cache' = shader_cache
             /\ DOMAIN shaders' \subseteq DOMAIN shaders
             /\ \A x \in DOMAIN shaders' : shaders'[x] = shaders[x]
             /\ loaded_plugins' = loaded_plugins
             /\ IF \/ \E a \in DOMAIN loaded_plugins :
                         input[1] \in Library(loaded_plugins[a].handle).functions
                   \/ input[1] \in BuiltinFunctionNames
                THEN /\ graph_call'.id # EmptyStr
                     /\ graph_call'.id \notin DOMAIN pending_nodes
                     /\ DOMAIN pending_nodes' = DOMAIN pending_nodes \cup {graph_call'.id}
                     /\ \A id \in DOMAIN pending_nodes : pending_nodes'[id] = pending_nodes[id]
                     /\ pending_nodes'[graph_call'.id].function_name = input[1]
                     /\ pending_nodes'[graph_call'.id].arguments = input[2]
                ELSE /\ graph_call'.id = EmptyStr
                     /\ pending_nodes' = pending_nodes ]_vars

\* C13 witness: a registration was refused for an unknown function while the
\* node table and the compiled-graph cache both held entries
C13_Witness ==
    /\ graph_call.op = "registerNode"
    /\ graph_call.status = "unknown_function"
    /\ graph_call.id = EmptyStr
    /\ pending_nodes # EmptyMap
    /\ compiled_cache # EmptyMap

UnresolvableReachable(nodes, out) ==
    \E id \in ReachableFrom(nodes, out) : ~(NodeRefs(nodes, id) \subseteq DOMAIN nodes)

\* C14: when a node reachable from the requested output has an argument
\* holding a `$shader_<id>` reference to an id that is not in the node table,
\* analyzeDependencies returns the empty list, and compileGraph returns null,
\* compiles nothing and leaves the compiled-graph cache unchanged.
C14_UnresolvableReferenceFails ==
    [][ /\ ( /\ AnalyzeDependenciesStep
             /\ graph_call'.out \in DOMAIN pending_nodes
             /\ UnresolvableReachable(pending_nodes, graph_call'.out) )
           => graph_call'.list = << >>
        /\ ( /\ CompileGraphStep
             /\ graph_call'.out \in DOMAIN pending_nodes
             /\ UnresolvableReachable(pending_nodes, graph_call'.out) )
           => /\ graph_call'.ret = NullObj
              /\ \A i \in 1..Len(graph_call'.steps) : graph_call'.steps[i] # "compile"
              /\ compiled_cache' = compiled_cache ]_vars

\* C15: no pending node holds an input edge to a node that is not in the node
\* table.
C15_NoDanglingInputEdges ==
    \A id \in DOMAIN pending_nodes :
        \A i \in 1..Len(pending_nodes[id].input_nodes) :
            pending_nodes[id].input_nodes[i] \in DOMAIN pending_nodes

\* C16: a compileGraph(out) that directly follows a successful
\* compileGraph(out) on an unchanged node table returns the same artifact and
\* runs neither code generation nor compilation; a compileGraph whose
\* compilation fails returns null and leaves the compiled-graph cache
\* unchanged.
C16_CompiledGraphIsCached ==
    [][ /\ ( /\ graph_call.op = "compileGraph"
             /\ graph_call.ret # NullObj
             /\ graph_call'.out = graph_call.out
             /\ CompileGraphStep )
           => /\ graph_call'.ret = graph_call.ret
              /\ graph_call'.steps = <<"hasNode", "analyzeDependencies", "cache_lookup">>
              /\ compiled_cache' = compiled_cache
              /\ shaders'[graph_call'.ret] = shaders[graph_call.ret]
        /\ \A gpu \in {"fail", "throw"} :
              ( /\ graph_call'.op = "compileGraph"
                /\ \E i \in 1..Len(graph_call'.steps) : graph_call'.steps[i] = "compile"
                /\ CompileGraph(graph_call'.out, gpu) )
              => /\ graph_call'.ret = NullObj
                 /\ compiled_cache' = compiled_cache ]_vars

\* C16 witness: a compileGraph call was answered from the compiled-graph cache
C16_Witness ==
    /\ graph_call.op = "compileGraph"
    /\ graph_call.ret # NullObj
    /\ graph_call.steps = <<"hasNode", "analyzeDependencies", "cache_lookup">>
    /\ \E k \in DOMAIN compiled_cache : compiled_cache[k] = graph_call.ret

\* the unified code of the artifact the last compileGraph call returned
UnifiedCodeOfCall == shaders[graph_call.ret].fragment_shader_code

\* compileGraph has just returned an artifact built from unified code
GraphCodeGenerated ==
    /\ graph_call.op = "compileGraph"
    /\ graph_call.ret # NullObj
    /\ graph_call.ret \in DOMAIN shaders
    /\ \E s \in 1..Len(graph_call.steps) : graph_call.steps[s] = "generate"

\* C17: in the unified shader of a dependency chain, the source of each
\* distinct plugin function is included exactly once and its wrapper is not
\* defined more than once, however many nodes of the chain use the function
C17_FunctionSourceEmittedOnce ==
    GraphCodeGenerated
    => \A i \in 1..Len(UnifiedCodeOfCall.functions) :
          LET entry == UnifiedCodeOfCall.functions[i]
          IN entry.kind = "PLUGIN_FUNCTION"
             => /\ Cardinality({ j \in 1..Len(UnifiedCodeOfCall.functions) :
                       UnifiedCodeOfCall.functions[j].include = entry.include }) = 1
                /\ Cardinality({ j \in 1..Len(UnifiedCodeOfCall.functions) :
                       /\ UnifiedCodeOfCall.functions[j].wrapper.emitted
                       /\ UnifiedCodeOfCall.functions[j].wrapper.name
                            = entry.include \o S_wrapper }) <= 1

\* does the text p occur somewhere in s
Contains(s, p) == \E i \in 1..Len(s) : StartsWithAt(s, i, p)

\* C18: in main() of the unified shader of a graph whose references all
\* resolve and form no cycle, the chain nodes get one temporary
\* <node_id>_result each, assigned in chain order; every `$shader_<id>` of a
\* node's arguments is replaced by <id>_result, the temporary of a node
\* assigned earlier; and the output colour reads the last node's temporary
C18_TemporariesInChainOrder ==
    (GraphCodeGenerated /\ Acyclic(pending_nodes) /\ AllReferencesResolve(pending_nodes))
    => LET main  == UnifiedCodeOfCall.main
           chain == graph_call.list
       IN /\ Len(main) = Len(chain)
          /\ \A i \in 1..Len(main) : main[i].var = chain[i] \o S_result
          /\ \A i, k \in 1..Len(main) : main[i].var = main[k].var => i = k
          /\ \A i \in 1..Len(main) :
                \A j \in 1..Len(pending_nodes[chain[i]].arguments) :
                   /\ ~Contains(main[i].args[j], S_dollar_shader_)
                   /\ \A id \in DollarRefs(pending_nodes[chain[i]].arguments[j]) :
                         /\ Contains(main[i].args[j], id \o S_result)
                         /\ \E k \in 1..(i - 1) : main[k].var = id \o S_result
          /\ UnifiedCodeOfCall.final = chain[Len(chain)] \o S_result

\* C19: in the unified code generated for a graph, every call of
\* <fn>_wrapper in main() has a definition of <fn>_wrapper in the function
\* block, which the source places before main()
C19_CalledWrapperIsDefined ==
    GraphCodeGenerated
    => \A i \in 1..Len(UnifiedCodeOfCall.main) :
          UnifiedCodeOfCall.main[i].kind = "PLUGIN_FUNCTION"
          => \E j \in 1..Len(UnifiedCodeOfCall.functions) :
                /\ UnifiedCodeOfCall.functions[j].wrapper.emitted
                /\ UnifiedCodeOfCall.functions[j].wrapper.name
                     = UnifiedCodeOfCall.main[i].callee

GenerateFragmentShaderStep ==
    /\ codegen_call'.op = "generateFragmentShader"
    /\ GenerateFragmentShader(codegen_call'.function_name, codegen_call'.arguments)

\* the overload findBestOverloadForArguments selects for the call just made,
\* 0 when it selects none
C20_Selected ==
    findBestOverloadForArguments(loaded_plugins, codegen_call'.function_name,
                                 codegen_call'.arguments)

\* C20: generateFragmentShader compares the user arguments' shape (their
\* count and GLSL types) with the parameter list of the overload selected for
\* them: when they differ, a wrapper taking the user's types is emitted and
\* main() calls it; when they agree, main() calls the function itself
C20_WrapperIffShapeDiffers ==
    [][ (GenerateFragmentShaderStep /\ C20_Selected # 0)
        => LET fn     == codegen_call'.function_name
               params == FunctionMetadata(loaded_plugins, fn)[C20_Selected].paramTypes
               code   == codegen_call'.code
           IN IF UserArgumentTypes(codegen_call'.arguments) # params
              THEN /\ code.wrapper_functions.emitted
                   /\ code.wrapper_functions.params
                        = UserArgumentTypes(codegen_call'.arguments)
                   /\ code.main.func_to_call = fn \o S_wrapper
              ELSE code.main.func_to_call = fn ]_vars

\* the overloads the priority order of C21 allows for a call: the
\* single-parameter overloads of exactly the arguments' total component count;
\* failing those, the overloads of several parameters, as many as there are
\* arguments; failing those, the single-parameter overloads nearest to the
\* total in component count
C21_Allowed(overloads, arguments) ==
    LET total   == SumComponents(UserArgumentTypes(arguments))
        idx     == 1..Len(overloads)
        singles == { i \in idx : Len(overloads[i].paramTypes) = 1 }
        diff(i) == IF SumComponents(overloads[i].paramTypes) >= total
                   THEN SumComponents(overloads[i].paramTypes) - total
                   ELSE total - SumComponents(overloads[i].paramTypes)
        exact   == { i \in singles : diff(i) = 0 }
        arity   == { i \in idx : /\ Len(overloads[i].paramTypes) > 1
                                 /\ Len(overloads[i].paramTypes) = Len(arguments) }
    IN IF exact # {} THEN exact
       ELSE IF arity # {} THEN arity
       ELSE { i \in singles : \A j \in singles : diff(i) <= diff(j) }

\* C21: for a function with overloads, the overload the code generator selects
\* for the arguments is one the priority order allows: exact single vector,
\* else several parameters matching the argument count, else nearest single
\* vector (none when the order allows none)
C21_OverloadPriority ==
    [][ (GenerateFragmentShaderStep
         /\ FunctionMetadata(loaded_plugins, codegen_call'.function_name) # << >>)
        => LET allowed == C21_Allowed(
                              FunctionMetadata(loaded_plugins,
                                               codegen_call'.function_name),
                              codegen_call'.arguments)
               chosen == findBestOverloadForArguments(loaded_plugins,
                             codegen_call'.function_name, codegen_call'.arguments)
           IN IF allowed = {} THEN chosen = 0 ELSE chosen \in allowed ]_vars

\* C22: the uniform block generated for an argument list declares no name
\* twice; declares vec2 resolution when an argument depends on st and never
\* declares st; declares no builtin that the registry marks as needing no
\* uniform; and declares every free variable that is no builtin as a float
C22_UniformBlock ==
    codegen_call.op = "generateFragmentShader"
    => LET uniforms == codegen_call.code.uniforms
           deps == UNION { parseExpression(codegen_call.arguments[i]).dependencies :
                             i \in 1..Len(codegen_call.arguments) }
       IN /\ \A u, v \in uniforms : u.name = v.name => u = v
          /\ (\E d \in deps : extractBaseVariable(d) = A_st)
                => [name |-> A_resolution, type |-> "vec2"] \in uniforms
          /\ \A u \in uniforms : u.name # A_st
          /\ \A u \in uniforms :
                isBuiltin(extractBaseVariable(u.name))
                => getBuiltinInfo(extractBaseVariable(u.name)).needs_uniform
          /\ \A d \in deps :
                ~isBuiltin(extractBaseVariable(d))
                => [name |-> d, type |-> "float"] \in uniforms

\* the argument mentions the builtin variable: as the whole argument, with a
\* swizzle, or as a variable inside an expression
ReferencesVariable(arg, variable) ==
    \E d \in parseExpression(arg).dependencies : extractBaseVariable(d) = variable

\* C23: the artifact of a createShader call that succeeded has its
\* auto-update-time flag set iff some argument references time and its
\* auto-update-resolution flag set iff some argument references st; the
\* artifact of a call whose compilation failed has neither flag set
C23_AutoUpdateFlags ==
    (shader_call.op = "createShader" /\ shader_call.ret \in DOMAIN shaders)
    => LET n == shaders[shader_call.ret]
           arguments == shader_call.arguments
       IN IF isReady(n)
          THEN /\ n.auto_update_time
                    = (\E i \in 1..Len(arguments) :
                          ReferencesVariable(arguments[i], A_time))
               /\ n.auto_update_resolution
                    = (\E i \in 1..Len(arguments) :
                          ReferencesVariable(arguments[i], A_st))
          ELSE ~n.auto_update_time /\ ~n.auto_update_resolution

\* C24: generateCacheKey tells requests apart, so the artifact a createShader
\* call takes from the cache was built for the same function name and the
\* same ordered arguments
C24_CacheKeyTellsRequestsApart ==
    (/\ shader_call.op = "createShader"
     /\ shader_call.steps = <<"validate", "cache_lookup">>)
    => /\ shaders[shader_call.ret].function_name = shader_call.function_name
       /\ shaders[shader_call.ret].arguments = shader_call.arguments

\* the argument has the form <name>.<letters> and either the name is no
\* builtin variable or a letter is none of the builtin's components
C25_FaultySwizzle(arg) ==
    \E d \in 2..(Len(arg) - 1) :
        LET name    == SubSeq(arg, 1, d - 1)
            letters == SubSeq(arg, d + 1, Len(arg))
        IN /\ arg[d] = "."
           /\ isIdentifier(name)
           /\ \A i \in 1..Len(letters) : letters[i] \in Letters
           /\ \/ ~isBuiltin(name)
              \/ \E i \in 1..Len(letters) :
                    letters[i] \notin getSupportedSwizzleComponents(name)

\* C25: isValidSwizzle rejects an argument only when it is a faulty swizzle;
\* a createShader call none of whose arguments is one (literals, plain names
\* and expressions such as time*0.5 are none) is not stopped by the validation
C25_OnlyFaultySwizzleRejected ==
    (/\ shader_call.op = "createShader"
     /\ \A i \in 1..Len(shader_call.arguments) :
           ~C25_FaultySwizzle(shader_call.arguments[i]))
    => shader_call.steps # <<"validate">>

\* the trimmed texts between the commas of raw_arguments at which as many
\* parentheses were closed as opened, in their order
C26_Segments(raw_arguments) ==
    LET count(c, i) == Cardinality({ k \in 1..(i - 1) : raw_arguments[k] = c })
        cuts == { i \in 1..Len(raw_arguments) :
                    raw_arguments[i] = "," /\ count("(", i) = count(")", i) }
                \cup {0, Len(raw_arguments) + 1}
        cut(n) == CHOOSE c \in cuts : Cardinality({ d \in cuts : d < c }) = n - 1
    IN [n \in 1..(Cardinality(cuts) - 1) |->
          trim(SubSeq(raw_arguments, cut(n) + 1, cut(n + 1) - 1))]

\* the analysis got as far as splitting the argument text
C26_Parsed ==
    /\ analyzer_call.op = "analyzeCreateMessage"
    /\ \/ analyzer_call.result.is_valid
       \/ analyzer_call.result.error_message
            # UnknownFunctionMessage(analyzer_call.main_function)

\* C26 as stated: parseArgumentList returns, in their order, the trimmed
\* segments between the commas at parenthesis depth 0
C26_AllSegments ==
    C26_Parsed =>
        analyzer_call.result.final_arguments
          = C26_Segments(analyzer_call.raw_arguments)

\* C26: parseArgumentList splits only at commas at parenthesis depth 0 (as
\* many parentheses closed as opened before the comma) and never inside a
\* nested call: it returns, in their order, the trimmed segments between
\* those commas that are not empty
C26_NonEmptySegments ==
    C26_Parsed =>
        analyzer_call.result.final_arguments
          = SelectSeq(C26_Segments(analyzer_call.raw_arguments),
                      LAMBDA segment : segment # EmptyStr)

\* an argument text with a comma inside a nested call was split in two
C26_NestedCommaKept ==
    /\ C26_Parsed
    /\ analyzer_call.raw_arguments = <<"m","i","x","(","s","t",",","t","i","m","e",")",",","t","i","m","e">>
    /\ analyzer_call.result.final_arguments = <<<<"m","i","x","(","s","t",",","t","i","m","e",")">>, <<"t","i","m","e">>>>

AnalyzeCreateMessageStep ==
    /\ analyzer_call'.op = "analyzeCreateMessage"
    /\ AnalyzeCreateMessage(analyzer_call'.main_function,
                            analyzer_call'.raw_arguments)

\* C28: a name of the builtin registry, function or type constructor, is
\* classified GLSL_BUILTIN, so the documented request
\* st,int(st.x*10.0)*random(time),time*0.5 is analysed as valid, with int a
\* builtin and random a plugin function, whenever random and the main
\* function are functions of a loaded plugin
C28_DocumentedRequestAnalysable ==
    [][(/\ analyzer_call'.op = "analyzeCreateMessage"
        /\ analyzer_call'.raw_arguments = <<"s","t",",","i","n","t","(","s","t",".","x","*","1","0",".","0",")","*","r","a","n","d","o","m","(","t","i","m","e",")",",","t","i","m","e","*","0",".","5">>
        /\ findFunction(loaded_plugins, N_random)
        /\ findFunction(loaded_plugins, analyzer_call'.main_function)
        /\ AnalyzeCreateMessageStep)
       => /\ analyzer_call'.result.is_valid
          /\ N_int \in analyzer_call'.result.used_builtin_functions
          /\ isBuiltinDataType(N_int)
          /\ N_random \in analyzer_call'.result.required_plugin_functions]_vars

\* the names that raw_arguments calls: the identifiers followed, after
\* optional whitespace, by "("
C27_CalledNames(raw_arguments) ==
    LET next(i) == CHOOSE p \in (WordRunEnd(raw_arguments, i) + 1)..(Len(raw_arguments) + 1) :
                      /\ p > Len(raw_arguments) \/ raw_arguments[p] \notin Whitespace
                      /\ \A k \in (WordRunEnd(raw_arguments, i) + 1)..(p - 1) :
                            raw_arguments[k] \in Whitespace
    IN { SubSeq(raw_arguments, i, WordRunEnd(raw_arguments, i)) :
           i \in { j \in 1..Len(raw_arguments) :
                     /\ raw_arguments[j] \in Letters \cup {"_"}
                     /\ (j = 1 \/ raw_arguments[j - 1] \notin WordChars)
                     /\ next(j) <= Len(raw_arguments)
                     /\ raw_arguments[next(j)] = "(" } }

\* a GLSL builtin or a function of a loaded plugin
C27_Known(table, function_name) ==
    \/ isBuiltinFunction(function_name)
    \/ isBuiltinDataType(function_name)
    \/ findFunction(table, function_name)

\* C27: analyzeCreateMessage reports is_valid iff the main function and every
\* function called at any depth in the arguments is a GLSL builtin or a
\* function of a loaded plugin, and otherwise names an unknown function in
\* the error message
C27_ValidIffAllKnown ==
    [][AnalyzeCreateMessageStep =>
        LET called == {analyzer_call'.main_function}
                      \cup C27_CalledNames(analyzer_call'.raw_arguments)
            unknown == { f \in called : ~C27_Known(loaded_plugins, f) }
        IN /\ analyzer_call'.result.is_valid <=> unknown = {}
           /\ ~analyzer_call'.result.is_valid =>
                \E f \in unknown :
                   analyzer_call'.result.error_message = UnknownFunctionMessage(f)]_vars

\* the identifier tokens of expr, an identifier with the ".component" that
\* follows it being one token, whose own occurrence is not followed, after
\* optional whitespace, by "("
C29_Variables(expr) ==
    LET word_end(i) == WordRunEnd(expr, i)
        token_end(i) == IF word_end(i) + 1 < Len(expr)
                           /\ expr[word_end(i) + 1] = "."
                           /\ expr[word_end(i) + 2] \in WordChars
                        THEN WordRunEnd(expr, word_end(i) + 2)
                        ELSE word_end(i)
        next(i) == CHOOSE p \in (token_end(i) + 1)..(Len(expr) + 1) :
                      /\ p > Len(expr) \/ expr[p] \notin Whitespace
                      /\ \A k \in (token_end(i) + 1)..(p - 1) : expr[k] \in Whitespace
        in_component(i) == \E j \in 1..(i - 1) :
                              /\ expr[j] \in Letters \cup {"_"}
                              /\ (j = 1 \/ expr[j - 1] \notin WordChars)
                              /\ word_end(j) < i /\ i <= token_end(j)
    IN { SubSeq(expr, i, token_end(i)) :
           i \in { j \in 1..Len(expr) :
                     /\ expr[j] \in Letters \cup {"_"}
                     /\ (j = 1 \/ expr[j - 1] \notin WordChars)
                     /\ ~in_component(j)
                     /\ ~(next(j) <= Len(expr) /\ expr[next(j)] = "(") } }

\* C29: for an expression handled by manual tokenization the dependencies are
\* exactly the identifier tokens whose own occurrence is not followed by "(",
\* numeric literals excluded; a variable that is a textual suffix of an
\* earlier function name is reported too
C29_DependenciesAreTheVariables ==
    (/\ parser_call.op = "parseExpression"
     /\ ~parser_call.result.is_simple_var
     /\ "." \in Range(parser_call.expr))
    => parser_call.result.dependencies = C29_Variables(parser_call.expr)

UpdateOSCStep ==
    /\ osc_call'.op = "updateOSC"
    /\ \E gpus \in [1..CreateRequests(receiver) -> GpuOutcomes] : UpdateOSC(gpus)

\* C30: an updateOSC call sends, for the /create, /connect and /free messages
\* it takes from the receiver, well-formed or not, exactly one response of
\* the matching kind each, reporting success or error, and nothing else; when
\* it returns the three request queues are empty
C30_OneResponsePerRequest ==
    [][(osc_handler /\ UpdateOSCStep) =>
        LET requests(address) ==
                Len(SelectSeq(receiver, LAMBDA msg : msg.address = address))
            responses(address) ==
                Len(SelectSeq(osc_call'.sent, LAMBDA msg : msg.address = address))
        IN /\ responses("/create/response") = requests("/create")
           /\ responses("/connect/response") = requests("/connect")
           /\ responses("/free/response") = requests("/free")
           /\ Len(osc_call'.sent)
                = requests("/create") + requests("/connect") + requests("/free")
           /\ \A i \in 1..Len(osc_call'.sent) :
                 osc_call'.sent[i].status \in {"success", "error"}
           /\ create_message_queue' = << >>
           /\ connect_message_queue' = << >>
           /\ free_message_queue' = << >>
           /\ receiver' = << >>]_vars

\* an updateOSC call answered a successful /create and a malformed /free
C30_TwoRequestsAnswered ==
    /\ osc_call.op = "updateOSC"
    /\ Len(osc_call.sent) = 2
    /\ \E i, j \in 1..Len(osc_call.sent) :
          /\ osc_call.sent[i].address = "/create/response"
          /\ osc_call.sent[i].status = "success"
          /\ osc_call.sent[j].address = "/free/response"
          /\ osc_call.sent[j].status = "error"
          /\ osc_call.sent[j].message = "Shader ID must be a string"

\* the requests an updateOSC call handles, in the order it handles them
HandledRequests(waiting) ==
    SelectSeq(waiting, LAMBDA msg : msg.address = "/create")
    \o SelectSeq(waiting, LAMBDA msg : msg.address = "/connect")
    \o SelectSeq(waiting, LAMBDA msg : msg.address = "/free")

\* the id a /connect or /free request names, none when it is malformed
C31_NamedIds(msg) ==
    IF Len(msg.args) = 1 /\ msg.args[1].type = "OFXOSC_TYPE_STRING"
    THEN {msg.args[1].text} ELSE {}

\* the responses are the ones C31 allows for the requests, handled in this
\* order; returned: the ids successful creates returned so far, live: those
\* of them not freed since
RECURSIVE C31_Allowed(_, _, _, _)
C31_Allowed(requests, responses, returned, live) ==
    IF requests = << >> \/ responses = << >>
    THEN requests = << >> /\ responses = << >>
    ELSE IF Head(requests).address = "/create"
    THEN IF Head(responses).status = "success"
         THEN /\ Head(responses).shader_id \notin returned
              /\ C31_Allowed(Tail(requests), Tail(responses),
                             returned \cup {Head(responses).shader_id},
                             live \cup {Head(responses).shader_id})
         ELSE C31_Allowed(Tail(requests), Tail(responses), returned, live)
    ELSE IF Head(requests).address = "/connect"
    THEN /\ (Head(responses).status = "success")
              <=> (C31_NamedIds(Head(requests)) \cap live # {})
         /\ C31_Allowed(Tail(requests), Tail(responses), returned, live)
    ELSE /\ (Head(responses).status = "success")
              <=> (C31_NamedIds(Head(requests)) \cap live # {})
         /\ C31_Allowed(Tail(requests), Tail(responses), returned,
                        live \ C31_NamedIds(Head(requests)))

\* C31: over the requests in the order the engine handles them, a successful
\* create returns an id no create returned before; connect(id) succeeds iff a
\* successful create returned id and id was not freed since (the artifact of
\* such an id being ready); free(id) succeeds iff a successful create returned
\* id and id was not freed since, so a second free(id) fails
C31_IdsLiveFromCreateToFree ==
    [][(osc_handler /\ UpdateOSCStep) =>
        /\ C31_Allowed(HandledRequests(receiver), osc_call'.sent,
                       returned_shader_ids,
                       returned_shader_ids \ freed_shader_ids)
        /\ \A id \in DOMAIN active_shaders' :
              isReady(shaders'[active_shaders'[id]])]_vars

\* a second /free of an id a create had returned was answered with an error
C31_SecondFreeFailed ==
    /\ osc_call.op = "updateOSC"
    /\ <<"0">> \in returned_shader_ids
    /\ Len(osc_call.sent) = 2
    /\ osc_call.sent[1].address = "/free/response"
    /\ osc_call.sent[1].status = "success"
    /\ osc_call.sent[2].address = "/free/response"
    /\ osc_call.sent[2].status = "error"
    /\ freed_shader_ids = {<<"0">>}

\* C32: no request the engine handles (a free, a connect that replaces the
\* current output, a free that clears it) and no other operation unloads the
\* compiled program of an artifact the shader cache still holds: a program
\* that was loaded and is no longer (unloaded, or destroyed with its node)
\* belongs to no entry of the cache afterwards, and every cached artifact that
\* was compiled has its program loaded
C32_ProgramLivesWhileCached ==
    [][/\ \A x \in DOMAIN shaders :
            (shaders[x].loaded /\ x \in Range(shader_cache'))
            => (x \in DOMAIN shaders' /\ shaders'[x].loaded)
       /\ \A x \in Range(shader_cache') :
            x \in DOMAIN shaders' /\ shaders'[x].loaded]_vars

\* a /free request succeeded and left the freed artifact, program loaded, in
\* the shader cache
C32_FreedArtifactStillCached ==
    /\ osc_call.op = "updateOSC"
    /\ \E i \in 1..Len(osc_call.sent) :
          /\ osc_call.sent[i].address = "/free/response"
          /\ osc_call.sent[i].status = "success"
    /\ active_shaders = EmptyMap
    /\ current_shader = NullObj
    /\ shader_cache # EmptyMap
    /\ \A x \in Range(shader_cache) : x \in DOMAIN shaders /\ shaders[x].loaded

\* C34: after any sequence of create, connect and free requests the engine
\* has handled, at most one ShaderNode is in state CONNECTED with
\* is_connected_to_output true, and that node is the engine's current output
\* shader
C34_OnlyCurrentOutputConnected ==
    LET connected == {x \in DOMAIN shaders :
                        \/ shaders[x].node_state = "CONNECTED"
                        \/ shaders[x].is_connected_to_output}
    IN /\ Cardinality(connected) <= 1
       /\ \A x \in connected : x = current_shader

\* C35: a /free request never clears the current output unless it names an
\* id whose connection made the artifact the current output: when the output
\* was connected through id "0" and only id "1" is freed, the current output
\* is still there after the tick, also when both ids were returned for
\* identical create requests
C35_FreeOfOtherIdKeepsOutput ==
    [][(/\ osc_handler
        /\ current_shader # NullObj
        /\ <<"0">> \in DOMAIN active_shaders
        /\ <<"1">> \in DOMAIN active_shaders
        /\ receiver = << [address |-> "/free", args |-> <<StringArg(<<"1">>)>>] >>
        /\ UpdateOSCStep)
       => current_shader' = current_shader]_vars

C37_FormatErrors ==
    { "Expected 2 arguments (function_name, arguments)",
      "All arguments must be strings",
      "Expected 1 argument (shader_id)",
      "Shader ID must be a string" }

\* a request with the number of arguments its kind takes, all of them strings
C37_WellFormed(msg) ==
    /\ Len(msg.args) = (IF msg.address = "/create" THEN 2 ELSE 1)
    /\ \A i \in 1..Len(msg.args) : msg.args[i].type = "OFXOSC_TYPE_STRING"

\* C37: the responses of one updateOSC tick answer the tick's requests kind
\* by kind, every /create before every /connect and every /connect before
\* every /free, and within a kind in the order the requests were received (a
\* malformed request is answered with its format error at its own place); so
\* with /free of a live id received before /connect of the same id, the
\* connect is applied first and succeeds, and the free succeeds after it
C37_KindsInTurnArrivalOrderWithin ==
    [][(osc_handler /\ UpdateOSCStep) =>
        LET requests == HandledRequests(receiver)
            sent == osc_call'.sent
        IN /\ Len(sent) = Len(requests)
           /\ \A i \in 1..Len(requests) :
                 /\ sent[i].address =
                       (CASE requests[i].address = "/create" -> "/create/response"
                          [] requests[i].address = "/connect" -> "/connect/response"
                          [] OTHER -> "/free/response")
                 /\ (sent[i].message \in C37_FormatErrors)
                       <=> ~C37_WellFormed(requests[i])
           /\ \A id \in DOMAIN active_shaders :
                 (receiver = << [address |-> "/free", args |-> <<StringArg(id)>>],
                                [address |-> "/connect", args |-> <<StringArg(id)>>] >>)
                 => /\ sent[1].status = "success"
                    /\ sent[2].status = "success"
                    /\ id \notin DOMAIN active_shaders'
                    /\ current_shader' = NullObj]_vars

\* a tick received /free of id 0 before /connect of id 0 and answered the
\* connect, then the free, both with success
C37_FreeReceivedFirstAppliedLast ==
    /\ osc_call.op = "updateOSC"
    /\ osc_call.waiting = << [address |-> "/free", args |-> <<StringArg(<<"0">>)>>],
                             [address |-> "/connect", args |-> <<StringArg(<<"0">>)>>] >>
    /\ Len(osc_call.sent) = 2
    /\ osc_call.sent[1].address = "/connect/response"
    /\ osc_call.sent[1].status = "success"
    /\ osc_call.sent[2].address = "/free/response"
    /\ osc_call.sent[2].status = "success"

\* C38: for every raw argument string, graphicsEngine::parseArguments returns
\* the list FunctionDependencyAnalyzer::parseArgumentList returns, the split
\* at top-level commas, so that a nested call stays a single argument
C38_EngineSplitsAtTopLevelCommas ==
    (parser_call.op = "parseArguments")
    => parser_call.result = parseArgumentList(parser_call.expr)

\* C33: once every plugin is unloaded, a createShader request naming a
\* function that only an unloaded plugin offered is rejected with an error
\* artifact, also when the identical request succeeded before the unload
C33_UnloadedFunctionRejected ==
    [][(/\ shader_call'.op = "createShader"
        /\ loaded_plugins = EmptyMap
        /\ \E path \in LibraryPaths :
              shader_call'.function_name \in Library(path).functions
        /\ ~findFunction(loaded_plugins, shader_call'.function_name)
        /\ CreateShaderStep)
       => /\ shaders'[shader_call'.ret].has_error
          /\ ~isReady(shaders'[shader_call'.ret])]_vars

RemoveNodeStep ==
    /\ graph_call'.op = "removeNode"
    /\ RemoveNode(graph_call'.out)

\* what analyzeDependencies(out) can return over the node table: the list and
\* how the analysis ended, for every iteration order of the table
C39_Analysis(nodes, out) ==
    {[list |-> a.list, status |-> a.status] :
        a \in {analyzeDependencies(resolved, out) : resolved \in ResolveOutcomes(nodes)}}

\* C39: registering or removing a node that the output node out does not
\* transitively reference, even one whose own references do not resolve,
\* leaves the result of analyzeDependencies(out), on which the success of
\* compileGraph(out) rests, as it was
C39_UnreachableNodesDoNotMatter ==
    [][(/\ graph_call'.op \in {"registerNode", "removeNode"}
        /\ graph_call'.status = "ok"
        /\ (RegisterNodeStep \/ RemoveNodeStep))
       => \A out \in DOMAIN pending_nodes \cap DOMAIN pending_nodes' :
             LET changed == (DOMAIN pending_nodes' \ DOMAIN pending_nodes)
                            \cup (DOMAIN pending_nodes \ DOMAIN pending_nodes')
                 reached == ReachableFrom(pending_nodes, out)
                            \cup ReachableFrom(pending_nodes', out)
                            \cup NodeRefs(pending_nodes, out)
             IN (changed \cap reached = {})
                => C39_Analysis(pending_nodes', out) = C39_Analysis(pending_nodes, out)]_vars

\* C40: only a `$shader_<id>` reference in an argument makes a graph edge or
\* a resolution failure: after analyzeDependencies every input node of a node
\* is named by a `$shader_<id>` in its arguments, and the analysis ends
\* unresolved only when some `$shader_<id>` names no registered node
C40_OnlyDollarReferences ==
    [][AnalyzeDependenciesStep
       => /\ \A id \in DOMAIN pending_nodes' :
                Range(pending_nodes'[id].input_nodes) \subseteq NodeRefs(pending_nodes, id)
          /\ (graph_call'.status = "unresolved")
                => ~AllReferencesResolve(pending_nodes)]_vars

\* C36: over any sequence of compile, setError, setState and
\* setConnectedToOutput on a ShaderNode, a node in lifecycle state IDLE or
\* CONNECTED has been compiled successfully: is_compiled is true and
\* has_error is false
C36_IdleOrConnectedIsCompiled ==
    (getState(host_node) \in {"IDLE", "CONNECTED"})
    => (host_node.is_compiled /\ ~host_node.has_error)

====
